---- MODULE Spec2Model ----
(***************************************************************************)
(* Match lifecycle and team-roster allocation of the football matchmaking  *)
(* backend (convex/matches.ts, convex/partyInvitations.ts).                *)
(*                                                                         *)
(* Every Convex mutation runs as one serializable transaction: a handler   *)
(* that throws writes nothing, a handler that returns commits all of its   *)
(* writes at once.  Each handler is therefore modelled by                  *)
(*   - an operator xxxResult(args) that walks the handler's checks in the  *)
(*     order of the code and yields the message of the first Error thrown, *)
(*     or Ok when the handler reaches its return statement, and            *)
(*   - an action Xxx(args), enabled when xxxResult(args) = Ok, that        *)
(*     applies all the writes of the handler.                              *)
(* Callers are authenticated users (getLoggedInUserOrThrow succeeds).      *)
(***************************************************************************)
EXTENDS Integers, Sequences, FiniteSets, TLC

\* ---------------------------------------------------------------- bounds
NumCallers == 3        \* users who invoke mutations during a run
MaxInvitations == 1    \* rows the partyInvitations table may hold

\* ------------------------------------------------------ program constants
MinPlayers == 6        \* createMatch: playersNeeded < 6 is rejected
MaxPlayers == 22       \* createMatch: playersNeeded > 22 is rejected
MaxFriendRequests == 3 \* friendRequests rows a run may reach
MaxNotifications == 3  \* notifications rows a run with failing calls may reach

Callers == 1..NumCallers
Teams == {"A", "B"}
Positions == {"goalkeeper", "defender", "midfielder", "forward"}
FieldPositions == Positions \ {"goalkeeper"}
Ok == "ok"

VARIABLES
    matches,            \* table "matches": sequence of documents, _id = index
    participants,       \* table "participants": set of documents
    partyInvitations,   \* table "partyInvitations": sequence, _id = index; the
                        \* fields no check reads (inviterId, message) are left out
    lastCall,           \* history: the last mutation that committed, and its caller
                        \* (kept by the actions of Spec)
    txn,                \* per caller: the joinMatch call in flight (SpecTxn only)
    playerRatings,      \* table "playerRatings": sequence of documents, _id = index
    scheduled,          \* per user: the updateAggregatedProfileStats jobs that
                        \* submitRating has scheduled for that user
    calls,              \* per client session: the mutation call in flight
                        \* (SpecJoinCalls and SpecRatingCalls only)
    notifications,      \* table "notifications": sequence of documents; kept are
                        \* the type and the invitation or friend request
    userProfiles,       \* table "userProfiles": per user the profile document,
                        \* or NoProfile
    friendRequests,     \* table "friendRequests": sequence of documents, _id = index
    blockedUsers,       \* table "blockedUsers": set of documents
    outcome,            \* history: the last call that ended, with its result
                        \* (kept by the actions of SpecAttempts)
    leaderboard         \* history: the last getOverallWorldwideLeaderboard call
                        \* and what it returned (SpecLeaderboard only)

vars == <<matches, participants, partyInvitations, lastCall, txn,
          playerRatings, scheduled, calls, notifications, userProfiles,
          friendRequests, blockedUsers, outcome, leaderboard>>

ratingTables == <<playerRatings, scheduled>>

\* What no handler of matches.ts, partyInvitations.ts or ratings.ts writes.
sideState == <<userProfiles, friendRequests, blockedUsers, outcome, leaderboard>>

\* Records the committed call (a call that throws commits nothing).
Committed(op, u) ==
    lastCall' = [op |-> op, userId |-> u] /\ UNCHANGED <<txn, calls, sideState>>

MatchIds == DOMAIN matches
InvitationIds == DOMAIN partyInvitations

\* ------------------------------------------------------------- helpers
\* ctx.db.query("participants").withIndex("by_matchId", ...).collect()
allParticipants(m) == {p \in participants : p.matchId = m}

\* .withIndex("by_matchId_and_userId", ...) before .unique()
participation(m, u) == {p \in participants : p.matchId = m /\ p.userId = u}

\* allParticipants.filter(p => p.team === args.team)
teamParticipants(all, t) == {p \in all : p.team = t}

\* teamParticipants.filter(p => p.position === args.position).length
positionCount(team, pos) == Cardinality({p \in team : p.position = pos})

\* match.playersNeeded / 2; playersNeeded is even for every stored match
\* (createMatch rejects odd values), so the quotient is exact.
maxPerTeam(pn) == pn \div 2

\* Variant of maxPerFieldPosition that rounds down instead of up.
maxPerFieldPosition_RoundedDown(pn) == (maxPerTeam(pn) - 1) \div 3

\* Math.ceil(maxFieldPlayersPerTeam / 3) with maxFieldPlayersPerTeam = maxPerTeam - 1
maxPerFieldPosition(pn) == ((maxPerTeam(pn) - 1) + 2) \div 3

SetStatus(m, s) == [matches EXCEPT ![m].status = s]

\* ------------------------------------------------- convex/matches.ts
\* A string is a sequence of characters.  An optional string argument is
\* either left out or given.
Absent == [given |-> FALSE, value |-> <<>>]
Given(str) == [given |-> TRUE, value |-> str]

\* String.prototype.trim(): white space is removed from both ends.
RECURSIVE trimStart(_)
trimStart(str) ==
    IF str # <<>> /\ Head(str) = " " THEN trimStart(Tail(str)) ELSE str

RECURSIVE trimEnd(_)
trimEnd(str) ==
    IF str # <<>> /\ str[Len(str)] = " "
    THEN trimEnd(SubSeq(str, 1, Len(str) - 1))
    ELSE str

trim(str) == trimEnd(trimStart(str))

\* String.prototype.toLowerCase(), on the letters the runs use.
lowerChar(c) == CASE c = "A" -> "a" [] c = "B" -> "b" [] c = "F" -> "f" [] OTHER -> c
toLowerCase(str) == [i \in DOMAIN str |-> lowerChar(str[i])]

\* `Football at ${args.location}`
defaultPartyName(location) ==
    <<"F", "o", "o", "t", "b", "a", "l", "l", " ", "a", "t", " ">> \o location

\* args.partyName?.trim() || defaultPartyName: a name left out, empty or
\* blank resolves to the default.
resolvedPartyName(partyName, location) ==
    IF partyName.given /\ trim(partyName.value) # <<>>
    THEN trim(partyName.value)
    ELSE defaultPartyName(location)

\* .filter(q => q.eq(q.field("partyName"), partyName)).first(): the stored
\* name is compared as it is, character by character.
existingParty(partyName) == {m \in MatchIds : matches[m].partyName = partyName}

\* Variant of createMatchResult that lacks the parity check (37-39).
createMatchResult_NoEvenCheck(location, dateTime, now, playersNeeded, partyName) ==
    IF playersNeeded < MinPlayers \/ playersNeeded > MaxPlayers
        THEN "Players needed must be between 6 and 22 for team matches."
    ELSE IF dateTime <= now THEN "Match date and time must be in the future."
    ELSE IF existingParty(resolvedPartyName(partyName, location)) # {}
        THEN "A party with this name already exists. Please choose a different name."
    ELSE Ok

\* createMatch handler (matches.ts 29-71); now is what Date.now() returns.
\* playersNeeded is an integer here (a fraction fails the parity check).
createMatchResult(location, dateTime, now, playersNeeded, partyName) ==
    IF playersNeeded < MinPlayers \/ playersNeeded > MaxPlayers
        THEN "Players needed must be between 6 and 22 for team matches."
    ELSE IF playersNeeded % 2 # 0
        THEN "Players needed must be even for team matches (equal teams)."
    ELSE IF dateTime <= now THEN "Match date and time must be in the future."
    ELSE IF existingParty(resolvedPartyName(partyName, location)) # {}
        THEN "A party with this name already exists. Please choose a different name."
    ELSE Ok

CreateMatch(u, location, dateTime, now, playersNeeded, partyName) ==
    /\ Committed("createMatch", u)
    /\ createMatchResult(location, dateTime, now, playersNeeded, partyName) = Ok
    /\ matches' = Append(matches,
           [creatorId |-> u, playersNeeded |-> playersNeeded, status |-> "open",
            partyName |-> resolvedPartyName(partyName, location)])
    /\ UNCHANGED <<participants, partyInvitations, ratingTables, notifications>>

\* Variant of joinMatchChecks that lacks the goalkeeper check (238-240).
joinMatchChecks_NoGoalkeeperCheck(u, match, all, t, pos) ==
    IF match.status # "open" THEN "Match is not open for joining."
    ELSE IF Cardinality({p \in all : p.userId = u}) > 1
        THEN "unique() returned more than one result"
    ELSE IF {p \in all : p.userId = u} # {} THEN "User has already joined this match."
    ELSE IF Cardinality(all) >= match.playersNeeded THEN "Match is already full."
    ELSE IF Cardinality(teamParticipants(all, t)) >= maxPerTeam(match.playersNeeded)
        THEN "Team is already full."
    ELSE IF pos # "goalkeeper"
            /\ positionCount(teamParticipants(all, t), pos)
                   >= maxPerFieldPosition(match.playersNeeded)
        THEN "Team already has the maximum number of this position."
    ELSE Ok

\* Variant of joinMatchChecks that also rejects a field player once the team
\* holds maxPerTeam - 1 field players (fieldPlayersInTeam against
\* maxFieldPlayersPerTeam, 243-244).
joinMatchChecks_FieldPlayersCapped(u, match, all, t, pos) ==
    IF match.status # "open" THEN "Match is not open for joining."
    ELSE IF Cardinality({p \in all : p.userId = u}) > 1
        THEN "unique() returned more than one result"
    ELSE IF {p \in all : p.userId = u} # {} THEN "User has already joined this match."
    ELSE IF Cardinality(all) >= match.playersNeeded THEN "Match is already full."
    ELSE IF Cardinality(teamParticipants(all, t)) >= maxPerTeam(match.playersNeeded)
        THEN "Team is already full."
    ELSE IF pos = "goalkeeper" /\ positionCount(teamParticipants(all, t), "goalkeeper") >= 1
        THEN "Team already has a goalkeeper."
    ELSE IF pos # "goalkeeper"
            /\ Cardinality({p \in teamParticipants(all, t) : p.position # "goalkeeper"})
                   >= maxPerTeam(match.playersNeeded) - 1
        THEN "Team already has the maximum number of field players."
    ELSE IF pos # "goalkeeper"
            /\ positionCount(teamParticipants(all, t), pos)
                   >= maxPerFieldPosition(match.playersNeeded)
        THEN "Team already has the maximum number of this position."
    ELSE Ok

\* Variant of joinMatchChecks that lacks the team-capacity check (226-232).
joinMatchChecks_NoTeamCheck(u, match, all, t, pos) ==
    IF match.status # "open" THEN "Match is not open for joining."
    ELSE IF Cardinality({p \in all : p.userId = u}) > 1
        THEN "unique() returned more than one result"
    ELSE IF {p \in all : p.userId = u} # {} THEN "User has already joined this match."
    ELSE IF Cardinality(all) >= match.playersNeeded THEN "Match is already full."
    ELSE IF pos = "goalkeeper" /\ positionCount(teamParticipants(all, t), "goalkeeper") >= 1
        THEN "Team already has a goalkeeper."
    ELSE IF pos # "goalkeeper"
            /\ positionCount(teamParticipants(all, t), pos)
                   >= maxPerFieldPosition(match.playersNeeded)
        THEN "Team already has the maximum number of this position."
    ELSE Ok

\* joinMatch handler (matches.ts 202-253) on what it has read: the match
\* document and the participants of the match.  The first Error thrown, or Ok.
joinMatchChecks(u, match, all, t, pos) ==
    IF match.status # "open" THEN "Match is not open for joining."
    ELSE IF Cardinality({p \in all : p.userId = u}) > 1
        THEN "unique() returned more than one result"
    ELSE IF {p \in all : p.userId = u} # {} THEN "User has already joined this match."
    ELSE IF Cardinality(all) >= match.playersNeeded THEN "Match is already full."
    ELSE IF Cardinality(teamParticipants(all, t)) >= maxPerTeam(match.playersNeeded)
        THEN "Team is already full."
    ELSE IF pos = "goalkeeper" /\ positionCount(teamParticipants(all, t), "goalkeeper") >= 1
        THEN "Team already has a goalkeeper."
    ELSE IF pos # "goalkeeper"
            /\ positionCount(teamParticipants(all, t), pos)
                   >= maxPerFieldPosition(match.playersNeeded)
        THEN "Team already has the maximum number of this position."
    ELSE Ok

\* joinMatch handler (matches.ts 195-267) in the current state.
joinMatchResult(u, m, t, pos) ==
    IF m \notin MatchIds THEN "Match not found."
    ELSE joinMatchChecks(u, matches[m], allParticipants(m), t, pos)

\* Variant of InsertParticipant that inserts the row but never patches the status.
InsertParticipant_NoFullPatch(u, m, t, pos, match, all) ==
    /\ participants' = participants \cup
           {[matchId |-> m, userId |-> u, team |-> t, position |-> pos]}
    /\ matches' = matches

\* The writes shared by joinMatch, creatorJoinMatch and acceptPartyInvitation
\* (matches.ts 255-265, 348-358; partyInvitations.ts 180-190): insert the
\* participant row, then patch status to "full" when the participants the
\* handler read (all), plus one, reach the playersNeeded it read (match).
InsertParticipant(u, m, t, pos, match, all) ==
    /\ participants' = participants \cup
           {[matchId |-> m, userId |-> u, team |-> t, position |-> pos]}
    /\ matches' = IF Cardinality(all) + 1 >= match.playersNeeded
                  THEN SetStatus(m, "full")
                  ELSE matches

JoinMatch(u, m, t, pos) ==
    /\ Committed("joinMatch", u)
    /\ joinMatchResult(u, m, t, pos) = Ok
    /\ InsertParticipant(u, m, t, pos, matches[m], allParticipants(m))
    /\ UNCHANGED <<partyInvitations, ratingTables, notifications>>

\* Variant of creatorJoinMatchResult that lacks the status check (295-297).
creatorJoinMatchResult_NoStatusCheck(u, m, t, pos) ==
    IF m \notin MatchIds THEN "Match not found."
    ELSE IF matches[m].creatorId # u THEN "Only the match creator can use this function."
    ELSE IF Cardinality(participation(m, u)) > 1 THEN "unique() returned more than one result"
    ELSE IF participation(m, u) # {} THEN "You have already joined this match as a player."
    ELSE IF Cardinality(allParticipants(m)) >= matches[m].playersNeeded
        THEN "Match is already full."
    ELSE IF Cardinality(teamParticipants(allParticipants(m), t))
                >= maxPerTeam(matches[m].playersNeeded)
        THEN "Team is already full."
    ELSE IF pos = "goalkeeper"
            /\ positionCount(teamParticipants(allParticipants(m), t), "goalkeeper") >= 1
        THEN "Team already has a goalkeeper."
    ELSE IF pos # "goalkeeper"
            /\ positionCount(teamParticipants(allParticipants(m), t), pos)
                   >= maxPerFieldPosition(matches[m].playersNeeded)
        THEN "Team already has the maximum number of this position."
    ELSE Ok

\* Variant of creatorJoinMatchResult that lacks the goalkeeper check (327-333).
creatorJoinMatchResult_NoGoalkeeperCheck(u, m, t, pos) ==
    IF m \notin MatchIds THEN "Match not found."
    ELSE IF matches[m].creatorId # u THEN "Only the match creator can use this function."
    ELSE IF matches[m].status # "open" THEN "Match is not open for joining."
    ELSE IF Cardinality(participation(m, u)) > 1 THEN "unique() returned more than one result"
    ELSE IF participation(m, u) # {} THEN "You have already joined this match as a player."
    ELSE IF Cardinality(allParticipants(m)) >= matches[m].playersNeeded
        THEN "Match is already full."
    ELSE IF Cardinality(teamParticipants(allParticipants(m), t))
                >= maxPerTeam(matches[m].playersNeeded)
        THEN "Team is already full."
    ELSE IF pos # "goalkeeper"
            /\ positionCount(teamParticipants(allParticipants(m), t), pos)
                   >= maxPerFieldPosition(matches[m].playersNeeded)
        THEN "Team already has the maximum number of this position."
    ELSE Ok

\* creatorJoinMatch handler (matches.ts 282-360).
creatorJoinMatchResult(u, m, t, pos) ==
    IF m \notin MatchIds THEN "Match not found."
    ELSE IF matches[m].creatorId # u THEN "Only the match creator can use this function."
    ELSE IF matches[m].status # "open" THEN "Match is not open for joining."
    ELSE IF Cardinality(participation(m, u)) > 1 THEN "unique() returned more than one result"
    ELSE IF participation(m, u) # {} THEN "You have already joined this match as a player."
    ELSE IF Cardinality(allParticipants(m)) >= matches[m].playersNeeded
        THEN "Match is already full."
    ELSE IF Cardinality(teamParticipants(allParticipants(m), t))
                >= maxPerTeam(matches[m].playersNeeded)
        THEN "Team is already full."
    ELSE IF pos = "goalkeeper"
            /\ positionCount(teamParticipants(allParticipants(m), t), "goalkeeper") >= 1
        THEN "Team already has a goalkeeper."
    ELSE IF pos # "goalkeeper"
            /\ positionCount(teamParticipants(allParticipants(m), t), pos)
                   >= maxPerFieldPosition(matches[m].playersNeeded)
        THEN "Team already has the maximum number of this position."
    ELSE Ok

CreatorJoinMatch(u, m, t, pos) ==
    /\ Committed("creatorJoinMatch", u)
    /\ creatorJoinMatchResult(u, m, t, pos) = Ok
    /\ InsertParticipant(u, m, t, pos, matches[m], allParticipants(m))
    /\ UNCHANGED <<partyInvitations, ratingTables, notifications>>

\* Variant of LeaveMatch that deletes the row but never patches the status.
LeaveMatch_NoReopen(u, m) ==
    /\ Committed("leaveMatch", u)
    /\ Cardinality(participation(m, u)) = 1
    /\ participants' = participants \ participation(m, u)
    /\ UNCHANGED <<matches, partyInvitations, ratingTables, notifications>>

\* leaveMatch handler (matches.ts 365-391): no check of match.status.
leaveMatchResult(u, m) ==
    IF m \notin MatchIds THEN "Match not found."
    ELSE IF Cardinality(participation(m, u)) > 1 THEN "unique() returned more than one result"
    ELSE IF participation(m, u) = {} THEN "User has not joined this match."
    ELSE Ok

LeaveMatch(u, m) ==
    /\ Committed("leaveMatch", u)
    /\ leaveMatchResult(u, m) = Ok
    /\ participants' = participants \ participation(m, u)
    /\ matches' = IF matches[m].status = "full" THEN SetStatus(m, "open") ELSE matches
    /\ UNCHANGED <<partyInvitations, ratingTables, notifications>>

\* Variant of cancelMatchResult that lacks the terminal-status check (406-408).
cancelMatchResult_NoTerminalCheck(u, m) ==
    IF m \notin MatchIds THEN "Match not found."
    ELSE IF matches[m].creatorId # u THEN "Only the creator can cancel the match."
    ELSE Ok

\* cancelMatch handler (matches.ts 396-412).
cancelMatchResult(u, m) ==
    IF m \notin MatchIds THEN "Match not found."
    ELSE IF matches[m].creatorId # u THEN "Only the creator can cancel the match."
    ELSE IF matches[m].status = "completed" \/ matches[m].status = "cancelled"
        THEN "Match is already " \o matches[m].status \o "."
    ELSE Ok

CancelMatch(u, m) ==
    /\ Committed("cancelMatch", u)
    /\ cancelMatchResult(u, m) = Ok
    /\ matches' = SetStatus(m, "cancelled")
    /\ UNCHANGED <<participants, partyInvitations, ratingTables, notifications>>

\* Variant of completeMatchResult that lacks the terminal-status check (427-429).
completeMatchResult_NoTerminalCheck(u, m) ==
    IF m \notin MatchIds THEN "Match not found."
    ELSE IF matches[m].creatorId # u
        THEN "Only the creator can mark the match as completed."
    ELSE Ok

\* Variant of completeMatchResult that lacks the creator check (424-426).
completeMatchResult_NoCreatorCheck(u, m) ==
    IF m \notin MatchIds THEN "Match not found."
    ELSE IF matches[m].status = "completed" \/ matches[m].status = "cancelled"
        THEN "Match is already " \o matches[m].status \o "."
    ELSE Ok

\* completeMatch handler (matches.ts 417-433).
completeMatchResult(u, m) ==
    IF m \notin MatchIds THEN "Match not found."
    ELSE IF matches[m].creatorId # u
        THEN "Only the creator can mark the match as completed."
    ELSE IF matches[m].status = "completed" \/ matches[m].status = "cancelled"
        THEN "Match is already " \o matches[m].status \o "."
    ELSE Ok

CompleteMatch(u, m) ==
    /\ Committed("completeMatch", u)
    /\ completeMatchResult(u, m) = Ok
    /\ matches' = SetStatus(m, "completed")
    /\ UNCHANGED <<participants, partyInvitations, ratingTables, notifications>>

\* ------------------------------------------- convex/notifications.ts
\* The document createPartyInvitationNotification and
\* createPartyInvitationResponseNotification insert (notifications.ts 46-55,
\* 68-77), and the one createNotification inserts (26-34).
PartyNotification(type, i) ==
    [type |-> type, partyInvitationId |-> i, friendRequestId |-> 0]
FriendNotification(type, r) ==
    [type |-> type, partyInvitationId |-> 0, friendRequestId |-> r]

\* ctx.runMutation(internal.notifications. ...) that returns.
InsertNotification(row) == notifications' = Append(notifications, row)

\* ------------------------------------------ convex/partyInvitations.ts
\* .withIndex("by_match_and_invitee").filter(status = "pending").first()
existingInvitation(m, invitee) ==
    {i \in InvitationIds : /\ partyInvitations[i].matchId = m
                           /\ partyInvitations[i].inviteeId = invitee
                           /\ partyInvitations[i].status = "pending"}

\* sendPartyInvitation handler (partyInvitations.ts 21-115).
sendPartyInvitationResult(u, m, invitee) ==
    IF u = invitee THEN "You cannot invite yourself to a party."
    ELSE IF m \notin MatchIds THEN "Match not found."
    ELSE IF matches[m].status = "cancelled" \/ matches[m].status = "completed"
        THEN "Cannot send invitations for this match."
    ELSE IF Cardinality(participation(m, u)) > 1 THEN "unique() returned more than one result"
    ELSE IF matches[m].creatorId # u /\ participation(m, u) = {}
        THEN "You must be part of the party to send invitations."
    ELSE IF Cardinality(participation(m, invitee)) > 1
        THEN "unique() returned more than one result"
    ELSE IF matches[m].creatorId = invitee \/ participation(m, invitee) # {}
        THEN "This user is already part of the party."
    ELSE IF existingInvitation(m, invitee) # {}
        THEN "There is already a pending invitation for this user."
    ELSE IF Cardinality(allParticipants(m)) >= matches[m].playersNeeded
        THEN "The party is already full."
    ELSE Ok

SendPartyInvitation(u, m, invitee) ==
    /\ Committed("sendPartyInvitation", u)
    /\ Len(partyInvitations) < MaxInvitations
    /\ sendPartyInvitationResult(u, m, invitee) = Ok
    /\ partyInvitations' = Append(partyInvitations,
           [matchId |-> m, inviteeId |-> invitee, status |-> "pending"])
    /\ InsertNotification(PartyNotification("party_invitation_received",
                                            Len(partyInvitations) + 1))
    /\ UNCHANGED <<matches, participants, ratingTables>>

\* Variant of acceptPartyInvitationResult that lacks the capacity check (172-174).
acceptPartyInvitationResult_NoFullCheck(u, i, t, pos) ==
    IF i \notin InvitationIds THEN "Invitation not found."
    ELSE IF partyInvitations[i].inviteeId # u
        THEN "You can only accept invitations sent to you."
    ELSE IF partyInvitations[i].status # "pending"
        THEN "This invitation is no longer pending."
    ELSE LET m == partyInvitations[i].matchId IN
        IF m \notin MatchIds THEN "Match not found."
        ELSE IF matches[m].status # "open" /\ matches[m].status # "full"
            THEN "This match is no longer accepting participants."
        ELSE IF Cardinality(participation(m, u)) > 1
            THEN "unique() returned more than one result"
        ELSE IF participation(m, u) # {} \/ matches[m].creatorId = u
            THEN "You are already part of this party."
        ELSE Ok

\* Variant of acceptPartyInvitationResult that lacks the existing-participation
\* check (154-164).
acceptPartyInvitationResult_NoExistingCheck(u, i, t, pos) ==
    IF i \notin InvitationIds THEN "Invitation not found."
    ELSE IF partyInvitations[i].inviteeId # u
        THEN "You can only accept invitations sent to you."
    ELSE IF partyInvitations[i].status # "pending"
        THEN "This invitation is no longer pending."
    ELSE LET m == partyInvitations[i].matchId IN
        IF m \notin MatchIds THEN "Match not found."
        ELSE IF matches[m].status # "open" /\ matches[m].status # "full"
            THEN "This match is no longer accepting participants."
        ELSE IF Cardinality(allParticipants(m)) >= matches[m].playersNeeded
            THEN "The party is already full."
        ELSE Ok

\* Variant of acceptPartyInvitationResult that lacks the invitee check (137-139).
acceptPartyInvitationResult_NoInviteeCheck(u, i, t, pos) ==
    IF i \notin InvitationIds THEN "Invitation not found."
    ELSE IF partyInvitations[i].status # "pending"
        THEN "This invitation is no longer pending."
    ELSE LET m == partyInvitations[i].matchId IN
        IF m \notin MatchIds THEN "Match not found."
        ELSE IF matches[m].status # "open" /\ matches[m].status # "full"
            THEN "This match is no longer accepting participants."
        ELSE IF Cardinality(participation(m, u)) > 1
            THEN "unique() returned more than one result"
        ELSE IF participation(m, u) # {} \/ matches[m].creatorId = u
            THEN "You are already part of this party."
        ELSE IF Cardinality(allParticipants(m)) >= matches[m].playersNeeded
            THEN "The party is already full."
        ELSE Ok

\* acceptPartyInvitation handler (partyInvitations.ts 129-210): the team and
\* position arguments are stored without any team or position check.
acceptPartyInvitationResult(u, i, t, pos) ==
    IF i \notin InvitationIds THEN "Invitation not found."
    ELSE IF partyInvitations[i].inviteeId # u
        THEN "You can only accept invitations sent to you."
    ELSE IF partyInvitations[i].status # "pending"
        THEN "This invitation is no longer pending."
    ELSE LET m == partyInvitations[i].matchId IN
        IF m \notin MatchIds THEN "Match not found."
        ELSE IF matches[m].status # "open" /\ matches[m].status # "full"
            THEN "This match is no longer accepting participants."
        ELSE IF Cardinality(participation(m, u)) > 1
            THEN "unique() returned more than one result"
        ELSE IF participation(m, u) # {} \/ matches[m].creatorId = u
            THEN "You are already part of this party."
        ELSE IF Cardinality(allParticipants(m)) >= matches[m].playersNeeded
            THEN "The party is already full."
        ELSE Ok

AcceptPartyInvitation(u, i, t, pos) ==
    /\ Committed("acceptPartyInvitation", u)
    /\ acceptPartyInvitationResult(u, i, t, pos) = Ok
    /\ partyInvitations' = [partyInvitations EXCEPT ![i].status = "accepted"]
    /\ InsertParticipant(u, partyInvitations[i].matchId, t, pos,
                         matches[partyInvitations[i].matchId],
                         allParticipants(partyInvitations[i].matchId))
    /\ InsertNotification(PartyNotification("party_invitation_accepted", i))
    /\ UNCHANGED ratingTables

\* declinePartyInvitation handler (partyInvitations.ts 217-254).
declinePartyInvitationResult(u, i) ==
    IF i \notin InvitationIds THEN "Invitation not found."
    ELSE IF partyInvitations[i].inviteeId # u
        THEN "You can only decline invitations sent to you."
    ELSE IF partyInvitations[i].status # "pending"
        THEN "This invitation is no longer pending."
    ELSE Ok

DeclinePartyInvitation(u, i) ==
    /\ Committed("declinePartyInvitation", u)
    /\ declinePartyInvitationResult(u, i) = Ok
    /\ partyInvitations' = [partyInvitations EXCEPT ![i].status = "declined"]
    /\ InsertNotification(PartyNotification("party_invitation_declined", i))
    /\ UNCHANGED <<matches, participants, ratingTables>>

\* ------------------------------------------------- convex/ratings.ts
\* .withIndex("by_match_and_rater", ...).filter(ratedUserId = ...) before .unique()
existingRating(m, rater, rated) ==
    {k \in DOMAIN playerRatings : /\ playerRatings[k].matchId = m
                                  /\ playerRatings[k].raterUserId = rater
                                  /\ playerRatings[k].ratedUserId = rated}

\* Variant of submitRatingResult that lacks the status check (50-52).
submitRatingResult_NoStatusCheck(u, m, ratedUserId, hasContent) ==
    IF ~hasContent
        THEN "At least one attribute must be rated or a suggestion provided."
    ELSE IF m \notin MatchIds THEN "Match not found."
    ELSE IF u = ratedUserId THEN "You cannot rate yourself."
    ELSE IF Cardinality(participation(m, u)) > 1 \/ Cardinality(participation(m, ratedUserId)) > 1
        THEN "unique() returned more than one result"
    ELSE IF participation(m, u) = {} THEN "Rater did not participate in this match."
    ELSE IF participation(m, ratedUserId) = {}
        THEN "Rated user did not participate in this match."
    ELSE IF Cardinality(existingRating(m, u, ratedUserId)) > 1
        THEN "unique() returned more than one result"
    ELSE IF existingRating(m, u, ratedUserId) # {}
        THEN "You have already rated this player for this match."
    ELSE Ok

\* Variant of submitRatingResult that lacks the existing-rating check (85-87).
submitRatingResult_NoExistingCheck(u, m, ratedUserId, hasContent) ==
    IF ~hasContent
        THEN "At least one attribute must be rated or a suggestion provided."
    ELSE IF m \notin MatchIds THEN "Match not found."
    ELSE IF matches[m].status # "completed"
        THEN "Ratings can only be submitted for completed matches."
    ELSE IF u = ratedUserId THEN "You cannot rate yourself."
    ELSE IF Cardinality(participation(m, u)) > 1 \/ Cardinality(participation(m, ratedUserId)) > 1
        THEN "unique() returned more than one result"
    ELSE IF participation(m, u) = {} THEN "Rater did not participate in this match."
    ELSE IF participation(m, ratedUserId) = {}
        THEN "Rated user did not participate in this match."
    ELSE Ok

\* submitRating handler (ratings.ts 33-109).  hasContent: one of the six grades
\* is given or the suggestion is a non-empty string.
submitRatingResult(u, m, ratedUserId, hasContent) ==
    IF ~hasContent
        THEN "At least one attribute must be rated or a suggestion provided."
    ELSE IF m \notin MatchIds THEN "Match not found."
    ELSE IF matches[m].status # "completed"
        THEN "Ratings can only be submitted for completed matches."
    ELSE IF u = ratedUserId THEN "You cannot rate yourself."
    ELSE IF Cardinality(participation(m, u)) > 1 \/ Cardinality(participation(m, ratedUserId)) > 1
        THEN "unique() returned more than one result"
    ELSE IF participation(m, u) = {} THEN "Rater did not participate in this match."
    ELSE IF participation(m, ratedUserId) = {}
        THEN "Rated user did not participate in this match."
    ELSE IF Cardinality(existingRating(m, u, ratedUserId)) > 1
        THEN "unique() returned more than one result"
    ELSE IF existingRating(m, u, ratedUserId) # {}
        THEN "You have already rated this player for this match."
    ELSE Ok

\* The arguments of submitRating other than the ids (ratings.ts 25-31): the
\* suggestion and the six grades, each a value or left out (Undefined).
Undefined == "undefined"
Grades == {"S", "A", "B", "C", "D"}
GivenKeys ==
    {"speedGiven", "defenseGiven", "offenseGiven",
     "shootingGiven", "dribblingGiven", "passingGiven"}

\* ratings.ts 37-38: a grade is a non-empty string; a suggestion counts when
\* it is given and not the empty string.
anAttributeIsRated(args) == \E k \in GivenKeys : args[k] # Undefined
hasRatingContent(args) ==
    anAttributeIsRated(args) \/ (args.suggestion # Undefined /\ args.suggestion # "")

\* The writes of submitRating (ratings.ts 89-106): the rating row, and one
\* scheduled updateAggregatedProfileStats job for the rated user.
InsertRating(u, m, ratedUserId, args) ==
    /\ playerRatings' = Append(playerRatings,
           [matchId |-> m, raterUserId |-> u, ratedUserId |-> ratedUserId,
            suggestion |-> args.suggestion,
            speedGiven |-> args.speedGiven, defenseGiven |-> args.defenseGiven,
            offenseGiven |-> args.offenseGiven, shootingGiven |-> args.shootingGiven,
            dribblingGiven |-> args.dribblingGiven, passingGiven |-> args.passingGiven])
    /\ scheduled' = [scheduled EXCEPT ![ratedUserId] = @ + 1]

SubmitRating(u, m, ratedUserId, args) ==
    /\ Committed("submitRating", u)
    /\ submitRatingResult(u, m, ratedUserId, hasRatingContent(args)) = Ok
    /\ InsertRating(u, m, ratedUserId, args)
    /\ UNCHANGED <<matches, participants, partyInvitations, notifications>>

\* ----------------------------------------------- convex/userProfiles.ts
\* A numeric field or argument: a number, NaN, null, or left out (Unset).
Unset == <<"unset", 0>>
Null == <<"null", 0>>
NaN == <<"NaN", 0>>
Num(n) == <<"number", n>>

\* typeof x === 'number'
IsNumber(x) == x[1] \in {"number", "NaN"}
\* x < n and x > n: a comparison with NaN is false.
lessThan(x, n) == x[1] = "number" /\ x[2] < n
greaterThan(x, n) == x[1] = "number" /\ x[2] > n

\* The six stats of a profile, in the order of coreStatKeys (108).
StatKeys == {"speed", "defense", "offense", "shooting", "dribbling", "passing"}
AggregateKeys == StatKeys \cup {"overallScore", "ratingsCount"}

\* attributeGivenKey.replace("Given", "") (87), read from the stat to the grade.
attributeGivenKey(stat) ==
    CASE stat = "speed" -> "speedGiven" [] stat = "defense" -> "defenseGiven"
      [] stat = "offense" -> "offenseGiven" [] stat = "shooting" -> "shootingGiven"
      [] stat = "dribbling" -> "dribblingGiven" [] stat = "passing" -> "passingGiven"

\* gradeToValueMapping (70-76)
gradeToValueMapping(grade) ==
    CASE grade = "S" -> 95 [] grade = "A" -> 85 [] grade = "B" -> 75
      [] grade = "C" -> 65 [] grade = "D" -> 55

MIN_RATINGS_FOR_AVERAGE == 1

\* Math.round(num / den) for num >= 0 and den > 0: halves round up.
round(num, den) == (2 * num + den) \div (2 * den)

\* .withIndex("by_ratedUser", q => q.eq("ratedUserId", ...)).collect() (59-62)
allRatingsForUser(ratedUserId) ==
    {k \in DOMAIN playerRatings : playerRatings[k].ratedUserId = ratedUserId}

\* The rows whose grade for the attribute is one of the mapped grades (89-91).
validRatingsForAttribute(ratedUserId, key) ==
    {k \in allRatingsForUser(ratedUserId) : playerRatings[k][key] \in Grades}

\* validRatingsForAttribute.reduce(...) (94)
sumOfValues(rows, key) ==
    LET sum[i \in 0..Len(playerRatings)] ==
            IF i = 0 THEN 0
            ELSE sum[i - 1] + (IF i \in rows
                               THEN gradeToValueMapping(playerRatings[i][key]) ELSE 0)
    IN sum[Len(playerRatings)]

\* The value the loop of 86-100 gives one stat.
aggregatedStat(ratedUserId, stat) ==
    LET valid == validRatingsForAttribute(ratedUserId, attributeGivenKey(stat)) IN
    IF Cardinality(valid) >= MIN_RATINGS_FOR_AVERAGE
    THEN Num(round(sumOfValues(valid, attributeGivenKey(stat)), Cardinality(valid)))
    ELSE Null

\* coreStatKeys.forEach(...) (108-116)
coreStatKeys == <<"speed", "defense", "offense", "shooting", "dribbling", "passing">>
sumOfStats(ratedUserId, stats) ==
    LET sum[i \in 0..Len(coreStatKeys)] ==
            IF i = 0 THEN 0
            ELSE sum[i - 1] + (IF coreStatKeys[i] \in stats
                               THEN aggregatedStat(ratedUserId, coreStatKeys[i])[2] ELSE 0)
    IN sum[Len(coreStatKeys)]

\* overallScore (105-122): the stats that came out as numbers are averaged.
aggregatedOverallScore(ratedUserId) ==
    LET valid == {stat \in StatKeys : IsNumber(aggregatedStat(ratedUserId, stat))} IN
    IF Cardinality(valid) > 0
    THEN Num(round(sumOfStats(ratedUserId, valid), Cardinality(valid)))
    ELSE Null

\* profileStatsUpdate as it stands at line 124: the six stats, overallScore and
\* ratingsCount.  It is also what the mutation returns as updatedStats (149).
profileStatsUpdate(ratedUserId) ==
    [speed |-> aggregatedStat(ratedUserId, "speed"),
     defense |-> aggregatedStat(ratedUserId, "defense"),
     offense |-> aggregatedStat(ratedUserId, "offense"),
     shooting |-> aggregatedStat(ratedUserId, "shooting"),
     dribbling |-> aggregatedStat(ratedUserId, "dribbling"),
     passing |-> aggregatedStat(ratedUserId, "passing"),
     overallScore |-> aggregatedOverallScore(ratedUserId),
     ratingsCount |-> Num(Cardinality(allRatingsForUser(ratedUserId)))]

\* .query("userProfiles").withIndex("by_userId", ...) before .unique()
profileOf(u) == {p \in userProfiles : p.userId = u}

\* A profile document as ctx.db.insert("userProfiles", {userId}) leaves it:
\* every optional field absent.  location, uniqueUserId and the two time
\* stamps are left out.
NewProfile(u) ==
    [userId |-> u, displayName |-> Absent, bio |-> Undefined,
     profileImageUrl |-> Undefined, favoritePosition |-> Undefined,
     country |-> Undefined, age |-> Unset,
     speed |-> Unset, defense |-> Unset, offense |-> Unset, shooting |-> Unset,
     dribbling |-> Unset, passing |-> Unset, overallScore |-> Unset,
     ratingsCount |-> Unset]

\* Variant of Patched that adds a ratingsCount of the update to the stored one.
Patched_AddsCounts(doc, update) ==
    [k \in DOMAIN doc |->
        IF k \notin DOMAIN update THEN doc[k]
        ELSE IF k = "ratingsCount" /\ doc[k][1] = "number" /\ update[k][1] = "number"
            THEN Num(doc[k][2] + update[k][2])
        ELSE update[k]]

\* ctx.db.patch(id, update): the fields of update overwrite those of the document.
Patched(doc, update) ==
    [k \in DOMAIN doc |-> IF k \in DOMAIN update THEN update[k] ELSE doc[k]]

\* The schema of the table (schema.ts userProfiles: age, the six stats,
\* overallScore and ratingsCount are v.optional(v.number())): each of these
\* fields is absent or holds a number; a write that leaves null in one of
\* them is refused.
NumberFields == AggregateKeys \cup {"age"}
matchesSchema(doc) == \A k \in NumberFields : doc[k] = Unset \/ IsNumber(doc[k])
SchemaError == "Failed to insert or update a document: it does not match the schema."

\* updateAggregatedProfileStats handler (58-150): Ok with the stats written or
\* with no profile to write to (the warning of 143); an error when the patch
\* of 141 is refused.
updateAggregatedProfileStatsResult(ratedUserId) ==
    IF Cardinality(profileOf(ratedUserId)) > 1 THEN "unique() returned more than one result"
    ELSE IF \E p \in profileOf(ratedUserId) :
                ~matchesSchema(Patched(p, profileStatsUpdate(ratedUserId)))
        THEN SchemaError
    ELSE Ok

\* The table profiles after one run of updateAggregatedProfileStats: the
\* profile of the rated user patched (141), or the table as it was when there
\* is no profile (143) or the patch is refused.
aggregatedProfiles(profiles, ratedUserId) ==
    LET mine == {p \in profiles : p.userId = ratedUserId}
        patched == {Patched(p, profileStatsUpdate(ratedUserId)) : p \in mine}
    IN IF \A p \in patched : matchesSchema(p)
       THEN (profiles \ mine) \cup patched
       ELSE profiles

\* A step of a profile mutation: the call is recorded, and the tables of the
\* other modules stay as they are.
ProfileStep(op, u) ==
    /\ lastCall' = [op |-> op, userId |-> u]
    /\ UNCHANGED <<matches, participants, partyInvitations, notifications, txn, calls,
                   friendRequests, blockedUsers, outcome, leaderboard>>

\* The scheduler runs a job that submitRating scheduled (ratings.ts 104-106).
\* A job whose handler throws has run and is not run again.
UpdateAggregatedProfileStats(ratedUserId) ==
    /\ scheduled[ratedUserId] > 0
    /\ scheduled' = [scheduled EXCEPT ![ratedUserId] = @ - 1]
    /\ ProfileStep("updateAggregatedProfileStats", ratedUserId)
    /\ userProfiles' = aggregatedProfiles(userProfiles, ratedUserId)
    /\ UNCHANGED playerRatings

\* The arguments of updateUserProfile (193-220); location is left out.
ProfileArgs ==
    [displayName |-> Absent, bio |-> Undefined, favoritePosition |-> Undefined,
     profileImageUrl |-> Undefined, age |-> Unset, skillLevel |-> Undefined,
     speed |-> Unset, defense |-> Unset, offense |-> Unset, passing |-> Unset,
     shooting |-> Unset, dribbling |-> Unset, country |-> Undefined]

MinDisplayName == 2
MaxDisplayName == 30
MinAge == 13
MaxAge == 100
MinStat == 0
MaxStat == 100

\* existingProfile.some(...) (235-242): another user's display name equals the
\* trimmed name when letter case is ignored.
displayNameTaken(u, trimmedDisplayName) ==
    \E p \in userProfiles :
        /\ p.userId # u
        /\ p.displayName.given
        /\ toLowerCase(p.displayName.value) = toLowerCase(trimmedDisplayName)

\* if (args.displayName): the name is given and is not the empty string.
hasDisplayName(args) == args.displayName.given /\ args.displayName.value # <<>>

\* statsToValidate (257); durability is no argument and is skipped.
statsToValidate == <<"speed", "defense", "offense", "passing", "shooting", "dribbling">>

\* The stat arguments the loop of 258-267 refuses.
refusedStats(args) ==
    {stat \in StatKeys :
        /\ args[stat] # Unset
        /\ (~IsNumber(args[stat]) \/ lessThan(args[stat], MinStat)
                \/ greaterThan(args[stat], MaxStat))}

\* The error of the first refused stat (262).
statError(args) ==
    LET refused == {i \in DOMAIN statsToValidate : statsToValidate[i] \in refusedStats(args)}
        stat == statsToValidate[CHOOSE i \in refused : \A j \in refused : i <= j]
    IN CASE stat = "speed" -> "Speed stat must be a number between 0 and 100."
         [] stat = "defense" -> "Defense stat must be a number between 0 and 100."
         [] stat = "offense" -> "Offense stat must be a number between 0 and 100."
         [] stat = "passing" -> "Passing stat must be a number between 0 and 100."
         [] stat = "shooting" -> "Shooting stat must be a number between 0 and 100."
         [] stat = "dribbling" -> "Dribbling stat must be a number between 0 and 100."

\* The fields updateUserProfile writes (277-288): the arguments that are given,
\* the display name trimmed (248).
isGiven(args, f) ==
    IF f \in NumberFields THEN args[f] # Unset
    ELSE IF f = "displayName" THEN args.displayName.given
    ELSE args[f] # Undefined

profileUpdate(args) ==
    [k \in {f \in DOMAIN args \ {"skillLevel"} : isGiven(args, f)} |->
        IF k = "displayName" /\ hasDisplayName(args)
        THEN Given(trim(args.displayName.value))
        ELSE args[k]]

\* updateUserProfile handler (221-292).  skillLevel is an argument (205-210)
\* but no field of the table (schema.ts), so a call that gives it is refused
\* at the write.
updateUserProfileResult(u, args) ==
    IF hasDisplayName(args) /\ Len(trim(args.displayName.value)) < MinDisplayName
        THEN "Display name must be at least 2 characters long."
    ELSE IF hasDisplayName(args) /\ Len(trim(args.displayName.value)) > MaxDisplayName
        THEN "Display name must be less than 30 characters."
    ELSE IF hasDisplayName(args) /\ displayNameTaken(u, trim(args.displayName.value))
        THEN "This display name is already taken. Please choose a different one."
    ELSE IF args.age # Unset
            /\ (lessThan(args.age, MinAge) \/ greaterThan(args.age, MaxAge))
        THEN "Age must be between 13 and 100."
    ELSE IF refusedStats(args) # {} THEN statError(args)
    ELSE IF Cardinality(profileOf(u)) > 1 THEN "unique() returned more than one result"
    ELSE IF args.skillLevel # Undefined THEN SchemaError
    ELSE Ok

\* ctx.db.patch of the caller's profile, or ctx.db.insert of a new one.
UpsertProfile(u, update) ==
    userProfiles' =
        IF profileOf(u) # {}
        THEN (userProfiles \ profileOf(u)) \cup {Patched(p, update) : p \in profileOf(u)}
        ELSE userProfiles \cup {Patched(NewProfile(u), update)}

UpdateUserProfile(u, args) ==
    /\ ProfileStep("updateUserProfile", u)
    /\ updateUserProfileResult(u, args) = Ok
    /\ UpsertProfile(u, profileUpdate(args))
    /\ UNCHANGED ratingTables

\* saveProfilePicture handler (362-374); imageUrl is ctx.storage.getUrl(...),
\* null (Undefined) when the file does not exist.
saveProfilePictureResult(u, imageUrl) ==
    IF imageUrl = Undefined THEN "Failed to get image URL"
    ELSE IF Cardinality(profileOf(u)) > 1 THEN "unique() returned more than one result"
    ELSE Ok

SaveProfilePicture(u, imageUrl) ==
    /\ ProfileStep("saveProfilePicture", u)
    /\ saveProfilePictureResult(u, imageUrl) = Ok
    /\ UpsertProfile(u, [profileImageUrl |-> imageUrl])
    /\ UNCHANGED ratingTables

\* updateBio handler (379-388).
updateBioResult(u, bio) ==
    IF Cardinality(profileOf(u)) > 1 THEN "unique() returned more than one result" ELSE Ok

UpdateBio(u, bio) ==
    /\ ProfileStep("updateBio", u)
    /\ updateBioResult(u, bio) = Ok
    /\ UpsertProfile(u, [bio |-> bio])
    /\ UNCHANGED ratingTables

\* updateDisplayName handler (393-405).
updateDisplayNameResult(u, displayName) ==
    IF Len(trim(displayName)) < MinDisplayName
        THEN "Display name must be at least 2 characters long."
    ELSE IF Cardinality(profileOf(u)) > 1 THEN "unique() returned more than one result"
    ELSE Ok

UpdateDisplayName(u, displayName) ==
    /\ ProfileStep("updateDisplayName", u)
    /\ updateDisplayNameResult(u, displayName) = Ok
    /\ UpsertProfile(u, [displayName |-> Given(trim(displayName))])
    /\ UNCHANGED ratingTables

\* getUserPublicProfile (155-189), the aggregate fields: `?? null` shows an
\* absent stat or overallScore as null, `?? 0` an absent ratingsCount as 0.
getUserPublicProfile(p) ==
    [k \in AggregateKeys |->
        IF p[k] # Unset THEN p[k] ELSE IF k = "ratingsCount" THEN Num(0) ELSE Null]

\* ------------------------------------------------ convex/leaderboards.ts
MIN_RATINGS_FOR_LEADERBOARD == 3
DefaultLimit == 50

\* The profiles the query keeps (143-156).  The database filter compares
\* overallScore with null, which an absent field differs from, and requires
\* ratingsCount to be at least the minimum, which an absent field is not; the
\* filters on position and country apply when the argument is given.
leaderboardProfiles(position, country) ==
    {p \in userProfiles :
        /\ p.overallScore # Null
        /\ IsNumber(p.ratingsCount) /\ ~lessThan(p.ratingsCount, MIN_RATINGS_FOR_LEADERBOARD)
        /\ position # Undefined => p.favoritePosition = position
        /\ country # Undefined => p.country = country}

\* x ?? 0 of a numeric field
orZero(x) == IF x = Unset THEN 0 ELSE x[2]

\* localeCompare over the letters used in display names: letters compare by
\* their place in the alphabet first, a space before any letter, and only when
\* two names agree in that does a lower-case letter come before its capital.
collationRank(c) ==
    CASE c = " " -> 0
      [] toLowerCase(<<c>>) = <<"a">> -> 1
      [] toLowerCase(<<c>>) = <<"b">> -> 2
      [] toLowerCase(<<c>>) = <<"f">> -> 6
      [] OTHER -> 24

\* Two sequences of numbers compared place by place, the shorter first when
\* one begins the other.
RECURSIVE compareRanks(_, _)
compareRanks(a, b) ==
    IF a = <<>> /\ b = <<>> THEN 0
    ELSE IF a = <<>> THEN -1
    ELSE IF b = <<>> THEN 1
    ELSE IF Head(a) < Head(b) THEN -1
    ELSE IF Head(a) > Head(b) THEN 1
    ELSE compareRanks(Tail(a), Tail(b))

caseRank(c) == IF toLowerCase(<<c>>) = <<c>> THEN 0 ELSE 1

localeCompare(a, b) ==
    LET letters(str) == [i \in DOMAIN str |-> collationRank(str[i])]
        cases(str) == [i \in DOMAIN str |-> caseRank(str[i])]
    IN IF compareRanks(letters(a), letters(b)) # 0
       THEN compareRanks(letters(a), letters(b))
       ELSE compareRanks(cases(a), cases(b))

\* The comparator of profiles.sort (159-170): negative when a goes first.
compareProfiles(a, b) ==
    IF a.overallScore # b.overallScore
        THEN orZero(b.overallScore) - orZero(a.overallScore)
    ELSE IF a.ratingsCount # b.ratingsCount
        THEN orZero(b.ratingsCount) - orZero(a.ratingsCount)
    ELSE localeCompare(a.displayName.value, b.displayName.value)

\* The outcomes of profiles.sort: the profiles in an order that agrees with
\* the comparator.  Profiles the comparator does not tell apart keep the order
\* in which the table returned them, which is the order of their creation and
\* may be any.
sortedProfiles(profiles) ==
    {s \in [1..Cardinality(profiles) -> profiles] :
        /\ \A i, j \in DOMAIN s : i # j => s[i] # s[j]
        /\ \A i, j \in DOMAIN s : i < j => compareProfiles(s[i], s[j]) <= 0}

\* Array.prototype.slice(0, end): a negative end counts from the end of the
\* array.
slice(arr, end) ==
    LET stop == IF end < 0 THEN (IF Len(arr) + end < 0 THEN 0 ELSE Len(arr) + end)
                ELSE IF end > Len(arr) THEN Len(arr) ELSE end
    IN SubSeq(arr, 1, stop)

\* getOverallWorldwideLeaderboard handler (138-174).  The query writes
\* nothing; what it was asked and what it returned is kept in leaderboard.
GetOverallWorldwideLeaderboard(limit, position, country) ==
    /\ \E sorted \in sortedProfiles(leaderboardProfiles(position, country)) :
           leaderboard' =
               [limit |-> limit, position |-> position, country |-> country,
                returned |-> slice(sorted, IF limit = Unset THEN DefaultLimit ELSE limit[2])]
    /\ UNCHANGED <<matches, participants, partyInvitations, lastCall, txn, calls,
                   ratingTables, notifications, userProfiles, friendRequests,
                   blockedUsers, outcome>>

\* ---------------------------------------------- joinMatch calls in flight
\* The same handler with its reads and its writes as separate steps, the way
\* the store runs a mutation: the handler reads the match document and the
\* by_matchId range of participants (matches.ts 197-220), and its writes
\* (255-265) commit only if nothing it read has changed in the meantime;
\* otherwise the store runs the handler again on the current data.
NoCall ==
    [pc |-> "idle", matchId |-> 0, team |-> "-", position |-> "-",
     read |-> [match |-> <<>>, all |-> {}], free |-> 0, keepers |-> 0, retried |-> FALSE, result |-> "-"]

\* What joinMatch reads: the match document and the participants of the match.
ReadSet(m) == [match |-> matches[m], all |-> allParticipants(m)]

\* The client calls joinMatch: the handler starts and reads.  free and keepers
\* note what the caller found at the time of the call: the free slots of the
\* match and the goalkeepers of the requested team.
JoinMatchBegin(u, m, t, pos) ==
    /\ txn[u].pc = "idle"
    /\ txn' = [txn EXCEPT ![u] =
                  [pc |-> "running", matchId |-> m, team |-> t, position |-> pos,
                   read |-> ReadSet(m),
                   free |-> matches[m].playersNeeded - Cardinality(allParticipants(m)),
                   keepers |-> positionCount(teamParticipants(allParticipants(m), t),
                                             "goalkeeper"),
                   retried |-> FALSE, result |-> "-"]]
    /\ UNCHANGED <<matches, participants, partyInvitations, lastCall,
                   ratingTables, notifications, sideState, calls>>

\* Something the handler read was written by a call that committed meanwhile:
\* the handler is run again and reads the current data.
JoinMatchRetry(u) ==
    /\ txn[u].pc = "running"
    /\ txn[u].read # ReadSet(txn[u].matchId)
    /\ txn' = [txn EXCEPT ![u].read = ReadSet(txn[u].matchId), ![u].retried = TRUE]
    /\ UNCHANGED <<matches, participants, partyInvitations, lastCall,
                   ratingTables, notifications, sideState, calls>>

\* The handler finishes and nothing it read has changed: it throws (nothing
\* is written), or its insert and its status patch commit together.  Its
\* checks and its writes use what it read.
JoinMatchCommit(u) ==
    /\ txn[u].pc = "running"
    /\ txn[u].read = ReadSet(txn[u].matchId)
    /\ LET r == joinMatchChecks(u, txn[u].read.match, txn[u].read.all,
                                txn[u].team, txn[u].position) IN
           /\ txn' = [txn EXCEPT ![u].pc = "done", ![u].result = r,
                                 ![u].read = NoCall.read]
           /\ IF r = Ok
              THEN InsertParticipant(u, txn[u].matchId, txn[u].team, txn[u].position,
                                     txn[u].read.match, txn[u].read.all)
              ELSE UNCHANGED <<matches, participants>>
    /\ UNCHANGED <<partyInvitations, lastCall,
                   ratingTables, notifications, sideState, calls>>

\* ------------------------------------------------------ specification
\* The run starts from a roster the program reaches by createMatch (user 1,
\* playersNeeded = 6) followed by four successful joinMatch calls of users
\* who stay passive afterwards: a defender on team A; a goalkeeper, a
\* defender and a midfielder on team B.  The match is open, team B is at
\* its maximum and team A has two free slots.
SeedRoster ==
    {[matchId |-> 1, userId |-> NumCallers + 1, team |-> "A", position |-> "defender"],
     [matchId |-> 1, userId |-> NumCallers + 2, team |-> "B", position |-> "goalkeeper"],
     [matchId |-> 1, userId |-> NumCallers + 3, team |-> "B", position |-> "defender"],
     [matchId |-> 1, userId |-> NumCallers + 4, team |-> "B", position |-> "midfielder"]}

\* The users of the run: the callers and the users of the seeded rows.
Users == Callers \cup {p.userId : p \in SeedRoster}

\* ------------------------------------------------ mutation calls in flight
\* A user may call from two client sessions at once.  A call in flight is a
\* handler that has started: it has read the documents and index ranges its
\* queries cover and has come to its result on them; its writes commit only
\* if nothing it read has been written in the meantime, otherwise the store
\* runs the handler again on the current data.
Sessions == {"s1", "s2"}

\* Arguments of submitRating drawn by the runs: nothing at all, a suggestion
\* alone, one grade alone, and two full sets of grades.
RatingArgs(suggestion, speed, defense, offense, shooting, dribbling, passing) ==
    [suggestion |-> suggestion, speedGiven |-> speed, defenseGiven |-> defense,
     offenseGiven |-> offense, shootingGiven |-> shooting,
     dribblingGiven |-> dribbling, passingGiven |-> passing]
NoContent ==
    RatingArgs(Undefined, Undefined, Undefined, Undefined, Undefined, Undefined, Undefined)
EmptySuggestion ==
    RatingArgs("", Undefined, Undefined, Undefined, Undefined, Undefined, Undefined)
SuggestionOnly ==
    RatingArgs("good", Undefined, Undefined, Undefined, Undefined, Undefined, Undefined)
SpeedOnly ==
    RatingArgs(Undefined, "S", Undefined, Undefined, Undefined, Undefined, Undefined)
AllA == RatingArgs(Undefined, "A", "A", "A", "A", "A", "A")
HalfB == RatingArgs(Undefined, "B", "B", "B", "A", "A", "A")
NoRead == [match |-> <<>>, all |-> {}, invitation |-> <<>>, ratings |-> {}]
IdleCall ==
    [pc |-> "idle", op |-> "-", userId |-> 0, id |-> 0, team |-> "-", position |-> "-",
     ratedUserId |-> 0, args |-> NoContent, read |-> NoRead, result |-> "-",
     retried |-> FALSE]

\* The match a call is about: args.matchId, or the match of args.invitationId.
callMatch(c) ==
    IF c.op = "acceptPartyInvitation" THEN partyInvitations[c.id].matchId ELSE c.id

\* What the handler of the call c reads: the match document and the
\* participants of the match (joinMatch 197-220, creatorJoinMatch 284-313),
\* with the invitation document for acceptPartyInvitation (132-170); for
\* submitRating (46-83) the match document, the participant rows of the rater
\* and of the rated user and the by_match_and_rater range of playerRatings.
ReadOf(c) ==
    IF c.op = "submitRating"
    THEN [match |-> matches[c.id],
          all |-> participation(c.id, c.userId) \cup participation(c.id, c.ratedUserId),
          invitation |-> <<>>,
          ratings |-> {k \in DOMAIN playerRatings :
                          /\ playerRatings[k].matchId = c.id
                          /\ playerRatings[k].raterUserId = c.userId}]
    ELSE [match |-> matches[callMatch(c)],
          all |-> allParticipants(callMatch(c)),
          invitation |-> IF c.op = "acceptPartyInvitation"
                         THEN partyInvitations[c.id] ELSE <<>>,
          ratings |-> {}]

\* The result the handler of the call c comes to on the current data.
ResultOf(c) ==
    CASE c.op = "joinMatch" -> joinMatchResult(c.userId, c.id, c.team, c.position)
      [] c.op = "creatorJoinMatch" ->
             creatorJoinMatchResult(c.userId, c.id, c.team, c.position)
      [] c.op = "acceptPartyInvitation" ->
             acceptPartyInvitationResult(c.userId, c.id, c.team, c.position)
      [] c.op = "submitRating" -> submitRatingResult(c.userId, c.id, c.ratedUserId,
                                                     hasRatingContent(c.args))

\* The handler runs: it reads, and comes to its result.
Started(c) == [c EXCEPT !.pc = "running", !.read = ReadOf(c), !.result = ResultOf(c)]

CallBegin(s, c) ==
    /\ calls[s].pc = "idle"
    /\ calls' = [calls EXCEPT ![s] = Started(c)]
    /\ UNCHANGED <<matches, participants, partyInvitations, lastCall, txn,
                   ratingTables, notifications, sideState>>

JoinMatchCall(s, u, m, t, pos) ==
    CallBegin(s, [IdleCall EXCEPT !.op = "joinMatch", !.userId = u, !.id = m,
                                  !.team = t, !.position = pos])

CreatorJoinMatchCall(s, u, m, t, pos) ==
    CallBegin(s, [IdleCall EXCEPT !.op = "creatorJoinMatch", !.userId = u, !.id = m,
                                  !.team = t, !.position = pos])

AcceptPartyInvitationCall(s, u, i, t, pos) ==
    CallBegin(s, [IdleCall EXCEPT !.op = "acceptPartyInvitation", !.userId = u, !.id = i,
                                  !.team = t, !.position = pos])

SubmitRatingCall(s, u, m, ratedUserId, args) ==
    CallBegin(s, [IdleCall EXCEPT !.op = "submitRating", !.userId = u, !.id = m,
                                  !.ratedUserId = ratedUserId, !.args = args])

\* Something the handler read was written by a call that committed meanwhile:
\* the handler is run again on the current data.
CallRetry(s) ==
    /\ calls[s].pc = "running"
    /\ calls[s].read # ReadOf(calls[s])
    /\ calls' = [calls EXCEPT ![s] = [Started(calls[s]) EXCEPT !.retried = TRUE]]
    /\ UNCHANGED <<matches, participants, partyInvitations, lastCall, txn,
                   ratingTables, notifications, sideState>>

\* The writes of a call that came to Ok, on what it read (matches.ts 255-265,
\* 348-358; partyInvitations.ts 177-190; ratings.ts 89-106).
CallWrites(c) ==
    CASE c.op \in {"joinMatch", "creatorJoinMatch"} ->
             /\ InsertParticipant(c.userId, c.id, c.team, c.position,
                                  c.read.match, c.read.all)
             /\ UNCHANGED <<partyInvitations, ratingTables, notifications>>
      [] c.op = "acceptPartyInvitation" ->
             /\ partyInvitations' = [partyInvitations EXCEPT ![c.id].status = "accepted"]
             /\ InsertParticipant(c.userId, c.read.invitation.matchId, c.team, c.position,
                                  c.read.match, c.read.all)
             /\ InsertNotification(PartyNotification("party_invitation_accepted", c.id))
             /\ UNCHANGED ratingTables
      [] c.op = "submitRating" ->
             /\ InsertRating(c.userId, c.id, c.ratedUserId, c.args)
             /\ UNCHANGED <<matches, participants, partyInvitations, notifications>>

\* Nothing the handler read has changed: the call ends.  It throws and writes
\* nothing, or all its writes commit together.
CallCommit(s) ==
    /\ calls[s].pc = "running"
    /\ calls[s].read = ReadOf(calls[s])
    /\ calls' = [calls EXCEPT ![s].pc = "done", ![s].read = NoRead]
    /\ IF calls[s].result = Ok
       THEN CallWrites(calls[s])
       ELSE UNCHANGED <<matches, participants, partyInvitations, ratingTables,
                        notifications>>
    /\ UNCHANGED <<lastCall, txn, sideState>>

\* ---------------------------------------------------- convex/friends.ts
\* .withIndex("by_requester_and_requestee", ...).first(): the oldest request
\* from one user to the other, 0 when there is none.
firstRequest(requesterId, requesteeId) ==
    LET found == {r \in DOMAIN friendRequests :
                     /\ friendRequests[r].requesterId = requesterId
                     /\ friendRequests[r].requesteeId = requesteeId}
    IN IF found = {} THEN 0 ELSE CHOOSE r \in found : \A x \in found : r <= x

\* findExistingFriendRequest (15-37)
findExistingFriendRequest(user1Id, user2Id) ==
    IF firstRequest(user1Id, user2Id) # 0 THEN firstRequest(user1Id, user2Id)
    ELSE firstRequest(user2Id, user1Id)

\* .withIndex("by_blocker_and_blocked", ...) before .unique()
blocksOf(blockerId, blockedId) ==
    {b \in blockedUsers : b.blockerId = blockerId /\ b.blockedId = blockedId}

\* sendFriendRequest handler (39-139), up to its first write.
sendFriendRequestChecks(u, requesteeId) ==
    LET existingRequest == findExistingFriendRequest(u, requesteeId) IN
    IF u = requesteeId THEN "You cannot send a friend request to yourself."
    ELSE IF requesteeId \notin Users THEN "The user you're trying to add does not exist."
    ELSE IF Cardinality(blocksOf(requesteeId, u)) > 1 \/ Cardinality(blocksOf(u, requesteeId)) > 1
        THEN "unique() returned more than one result"
    ELSE IF blocksOf(requesteeId, u) # {} \/ blocksOf(u, requesteeId) # {}
        THEN "Cannot send friend request due to blocking."
    ELSE IF existingRequest # 0 /\ friendRequests[existingRequest].status = "pending"
        THEN "A friend request is already pending between you and this user."
    ELSE IF existingRequest # 0 /\ friendRequests[existingRequest].status = "accepted"
        THEN "You are already friends with this user."
    ELSE Ok

\* The writes of sendFriendRequest (87-91 or 114-118): a declined request
\* between the two is made pending again, otherwise a request is inserted.
\* friendRequestId is the request the notification names.
sentRequestId(u, requesteeId) ==
    LET existingRequest == findExistingFriendRequest(u, requesteeId) IN
    IF existingRequest # 0 /\ friendRequests[existingRequest].status = "declined"
    THEN existingRequest ELSE Len(friendRequests) + 1

WriteFriendRequest(u, requesteeId) ==
    LET row == [requesterId |-> u, requesteeId |-> requesteeId, status |-> "pending"] IN
    friendRequests' =
        IF sentRequestId(u, requesteeId) <= Len(friendRequests)
        THEN [friendRequests EXCEPT ![sentRequestId(u, requesteeId)] = row]
        ELSE Append(friendRequests, row)

\* acceptFriendRequest handler (141-182), up to its first write.
acceptFriendRequestChecks(u, friendRequestId) ==
    IF friendRequestId \notin DOMAIN friendRequests THEN "Friend request not found."
    ELSE IF friendRequests[friendRequestId].requesteeId # u
        THEN "You can only accept friend requests sent to you."
    ELSE IF friendRequests[friendRequestId].status # "pending"
        THEN "This friend request is no longer pending."
    ELSE Ok

\* declineFriendRequest handler (184-228), up to its first write.
declineFriendRequestChecks(u, friendRequestId) ==
    IF friendRequestId \notin DOMAIN friendRequests THEN "Friend request not found."
    ELSE IF friendRequests[friendRequestId].requesteeId # u
            /\ friendRequests[friendRequestId].requesterId # u
        THEN "You can only decline friend requests involving you."
    ELSE IF friendRequests[friendRequestId].status # "pending"
        THEN "This friend request is no longer pending."
    ELSE Ok

\* removeFriend handler (230-253).
removeFriendResult(u, friendUserId) ==
    LET friendRequest == findExistingFriendRequest(u, friendUserId) IN
    IF u = friendUserId THEN "You cannot remove yourself as a friend."
    ELSE IF friendRequest = 0 \/ friendRequests[friendRequest].status # "accepted"
        THEN "You are not friends with this user."
    ELSE Ok

\* blockUser handler (friends.ts, as listed in NotificationsModal.tsx 743-785).
blockUserResult(u, blockedId, reason) ==
    IF u = blockedId THEN "You cannot block yourself."
    ELSE IF Cardinality(blocksOf(u, blockedId)) > 1
        THEN "unique() returned more than one result"
    ELSE IF blocksOf(u, blockedId) # {} THEN "User already blocked."
    ELSE Ok

\* What blockUser has written when it ends.  Before it throws for an existing
\* block it patches the reason of that block when a different one is given
\* (763-768); otherwise it inserts the block (771-775) and marks a pending or
\* accepted request between the two as removed (778-781).
BlockUserWrites(u, blockedId, reason) ==
    LET friendRequest == findExistingFriendRequest(u, blockedId) IN
    IF u = blockedId \/ Cardinality(blocksOf(u, blockedId)) > 1
    THEN UNCHANGED <<blockedUsers, friendRequests>>
    ELSE IF blocksOf(u, blockedId) # {}
    THEN /\ blockedUsers' =
                (blockedUsers \ blocksOf(u, blockedId)) \cup
                {IF reason # Undefined /\ reason # "" /\ b.reason # reason
                 THEN [b EXCEPT !.reason = reason] ELSE b : b \in blocksOf(u, blockedId)}
         /\ UNCHANGED friendRequests
    ELSE /\ blockedUsers' = blockedUsers \cup
                {[blockerId |-> u, blockedId |-> blockedId, reason |-> reason]}
         /\ friendRequests' =
                IF friendRequest # 0
                    /\ friendRequests[friendRequest].status \in {"pending", "accepted"}
                THEN [friendRequests EXCEPT ![friendRequest].status = "removed"]
                ELSE friendRequests

\* unblockUser handler (787-809).
unblockUserResult(u, blockedId) ==
    IF Cardinality(blocksOf(u, blockedId)) > 1 THEN "unique() returned more than one result"
    ELSE IF blocksOf(u, blockedId) = {} THEN "User is not blocked by you."
    ELSE Ok

\* ------------------------------------------------- calls and how they end
\* The tables.
tables ==
    <<matches, participants, partyInvitations, playerRatings, scheduled, notifications,
      userProfiles, friendRequests, blockedUsers>>

\* The store runs a mutation as one transaction: when the handler ends with
\* an error none of the writes it made is kept, otherwise all are.
Transaction_NoAbort(result, writes) == writes

Transaction(result, writes) == IF result = Ok THEN writes ELSE UNCHANGED tables

\* What ctx.runMutation(internal.notifications. ...) may end with: it returns,
\* or the inner mutation throws and the error reaches the caller of
\* runMutation.
DispatchError == "createNotification failed"
DispatchResults == {Ok, DispatchError}

\* await ctx.runMutation(internal.notifications. ..., row), with no try
\* around it in any handler: the notification when it returns.
Dispatched(dispatch, row) ==
    IF dispatch = Ok THEN InsertNotification(row) ELSE UNCHANGED notifications

\* A call of a mutation from its start to its end, whichever way it ends.
\* checks is what the handler's checks before its first write give; the
\* handler then writes and dispatches the notification, and an error of the
\* dispatch ends the handler like an error of its own.  outcome keeps the
\* call (the object it names in id, the reason given to blockUser) and what
\* the caller is told.
Attempt(op, u, id, checks, dispatch, writes) ==
    LET result == IF checks # Ok THEN checks ELSE dispatch IN
    /\ outcome' = [op |-> op, userId |-> u, id |-> id, reason |-> Undefined,
                   result |-> result, dispatchFailed |-> checks = Ok /\ dispatch # Ok]
    /\ Transaction(result, IF checks = Ok THEN writes ELSE UNCHANGED tables)
    /\ UNCHANGED <<lastCall, txn, calls, leaderboard>>

JoinMatchAttempt(u, m, t, pos) ==
    Attempt("joinMatch", u, m, joinMatchResult(u, m, t, pos), Ok,
            /\ InsertParticipant(u, m, t, pos, matches[m], allParticipants(m))
            /\ UNCHANGED <<partyInvitations, ratingTables, notifications, userProfiles,
                           friendRequests, blockedUsers>>)

SendPartyInvitationAttempt(u, m, invitee, dispatch) ==
    /\ Len(partyInvitations) < MaxInvitations
    /\ Len(notifications) < MaxNotifications
    /\ Attempt("sendPartyInvitation", u, Len(partyInvitations) + 1,
               sendPartyInvitationResult(u, m, invitee), dispatch,
               /\ partyInvitations' = Append(partyInvitations,
                      [matchId |-> m, inviteeId |-> invitee, status |-> "pending"])
               /\ Dispatched(dispatch, PartyNotification("party_invitation_received",
                                                         Len(partyInvitations) + 1))
               /\ UNCHANGED <<matches, participants, ratingTables, userProfiles,
                              friendRequests, blockedUsers>>)

AcceptPartyInvitationAttempt(u, i, t, pos, dispatch) ==
    /\ Len(notifications) < MaxNotifications
    /\ Attempt("acceptPartyInvitation", u, i,
               acceptPartyInvitationResult(u, i, t, pos), dispatch,
               /\ partyInvitations' = [partyInvitations EXCEPT ![i].status = "accepted"]
               /\ InsertParticipant(u, partyInvitations[i].matchId, t, pos,
                                    matches[partyInvitations[i].matchId],
                                    allParticipants(partyInvitations[i].matchId))
               /\ Dispatched(dispatch, PartyNotification("party_invitation_accepted", i))
               /\ UNCHANGED <<ratingTables, userProfiles, friendRequests, blockedUsers>>)

DeclinePartyInvitationAttempt(u, i, dispatch) ==
    /\ Len(notifications) < MaxNotifications
    /\ Attempt("declinePartyInvitation", u, i, declinePartyInvitationResult(u, i), dispatch,
               /\ partyInvitations' = [partyInvitations EXCEPT ![i].status = "declined"]
               /\ Dispatched(dispatch, PartyNotification("party_invitation_declined", i))
               /\ UNCHANGED <<matches, participants, ratingTables, userProfiles,
                              friendRequests, blockedUsers>>)

SendFriendRequestAttempt(u, requesteeId, dispatch) ==
    /\ Len(friendRequests) < MaxFriendRequests
    /\ Len(notifications) < MaxNotifications
    /\ Attempt("sendFriendRequest", u, sentRequestId(u, requesteeId),
               sendFriendRequestChecks(u, requesteeId), dispatch,
               /\ WriteFriendRequest(u, requesteeId)
               /\ Dispatched(dispatch, FriendNotification("friend_request_received",
                                                          sentRequestId(u, requesteeId)))
               /\ UNCHANGED <<matches, participants, partyInvitations, ratingTables,
                              userProfiles, blockedUsers>>)

AcceptFriendRequestAttempt(u, friendRequestId, dispatch) ==
    /\ Len(notifications) < MaxNotifications
    /\ Attempt("acceptFriendRequest", u, friendRequestId,
               acceptFriendRequestChecks(u, friendRequestId), dispatch,
               /\ friendRequests' = [friendRequests EXCEPT ![friendRequestId].status = "accepted"]
               /\ Dispatched(dispatch, FriendNotification("friend_request_accepted",
                                                          friendRequestId))
               /\ UNCHANGED <<matches, participants, partyInvitations, ratingTables,
                              userProfiles, blockedUsers>>)

\* The notification is sent when the requestee declines, not when the
\* requester withdraws the request (206-207).
DeclineFriendRequestAttempt(u, friendRequestId, dispatch) ==
    /\ Len(notifications) < MaxNotifications
    /\ Attempt("declineFriendRequest", u, friendRequestId,
               declineFriendRequestChecks(u, friendRequestId),
               IF friendRequestId \in DOMAIN friendRequests
                   /\ friendRequests[friendRequestId].requesteeId = u
               THEN dispatch ELSE Ok,
               /\ friendRequests' = [friendRequests EXCEPT ![friendRequestId].status = "declined"]
               /\ IF friendRequests[friendRequestId].requesteeId = u
                  THEN Dispatched(dispatch, FriendNotification("friend_request_declined",
                                                               friendRequestId))
                  ELSE UNCHANGED notifications
               /\ UNCHANGED <<matches, participants, partyInvitations, ratingTables,
                              userProfiles, blockedUsers>>)

RemoveFriendAttempt(u, friendUserId) ==
    Attempt("removeFriend", u, findExistingFriendRequest(u, friendUserId),
            removeFriendResult(u, friendUserId), Ok,
            /\ friendRequests' =
                   [friendRequests EXCEPT ![findExistingFriendRequest(u, friendUserId)].status
                                              = "removed"]
            /\ UNCHANGED <<matches, participants, partyInvitations, ratingTables,
                           notifications, userProfiles, blockedUsers>>)

\* blockUser writes before it throws, so its writes are not those of a call
\* that passed its checks.
BlockUserAttempt(u, blockedId, reason) ==
    /\ outcome' = [op |-> "blockUser", userId |-> u, id |-> blockedId, reason |-> reason,
                   result |-> blockUserResult(u, blockedId, reason),
                   dispatchFailed |-> FALSE]
    /\ Transaction(blockUserResult(u, blockedId, reason),
                   /\ BlockUserWrites(u, blockedId, reason)
                   /\ UNCHANGED <<matches, participants, partyInvitations, ratingTables,
                                  notifications, userProfiles>>)
    /\ UNCHANGED <<lastCall, txn, calls, leaderboard>>

UnblockUserAttempt(u, blockedId) ==
    Attempt("unblockUser", u, blockedId, unblockUserResult(u, blockedId), Ok,
            /\ blockedUsers' = blockedUsers \ blocksOf(u, blockedId)
            /\ UNCHANGED <<matches, participants, partyInvitations, ratingTables,
                           notifications, userProfiles, friendRequests>>)

\* ------------------------------------------------------ specifications
\* No call has ended yet; no leaderboard has been asked for.
NoOutcome ==
    [op |-> "none", userId |-> 0, id |-> 0, reason |-> Undefined, result |-> "-",
     dispatchFailed |-> FALSE]
NoQuery == [limit |-> Unset, position |-> Undefined, country |-> Undefined,
            returned |-> <<>>]

Init ==
    /\ matches = <<[creatorId |-> 1, playersNeeded |-> MinPlayers, status |-> "open",
                    partyName |-> defaultPartyName(<<"x">>)]>>
    /\ participants = SeedRoster
    /\ partyInvitations = <<>>
    /\ lastCall = [op |-> "none", userId |-> 0]
    /\ txn = [u \in Callers |-> NoCall]
    /\ playerRatings = <<>>
    /\ scheduled = [v \in Users |-> 0]
    /\ calls = [s \in Sessions |-> IdleCall]
    /\ notifications = <<>>
    /\ userProfiles = {}
    /\ friendRequests = <<>>
    /\ blockedUsers = {}
    /\ outcome = NoOutcome
    /\ leaderboard = NoQuery

Next ==
    \/ \E u \in Callers, m \in MatchIds, t \in Teams, pos \in Positions :
           JoinMatch(u, m, t, pos)
    \/ \E u \in Callers, m \in MatchIds, t \in Teams, pos \in Positions :
           CreatorJoinMatch(u, m, t, pos)
    \/ \E u \in Callers, m \in MatchIds : LeaveMatch(u, m)
    \/ \E u \in Callers, m \in MatchIds : CancelMatch(u, m)
    \/ \E u \in Callers, m \in MatchIds : CompleteMatch(u, m)
    \/ \E u \in Callers, m \in MatchIds, invitee \in Callers :
           SendPartyInvitation(u, m, invitee)
    \/ \E u \in Callers, i \in InvitationIds, t \in Teams, pos \in Positions :
           AcceptPartyInvitation(u, i, t, pos)
    \/ \E u \in Callers, i \in InvitationIds : DeclinePartyInvitation(u, i)

Spec == Init /\ [][Next]_vars

\* Concurrent joinMatch calls: every caller calls joinMatch at most once, and
\* the calls overlap in every possible way.
NextTxn ==
    \/ \E u \in Callers, m \in MatchIds, t \in Teams, pos \in Positions :
           JoinMatchBegin(u, m, t, pos)
    \/ \E u \in Callers : JoinMatchRetry(u)
    \/ \E u \in Callers : JoinMatchCommit(u)

SpecTxn == Init /\ [][NextTxn]_vars

\* Ratings: the roster changes by joinMatch and leaveMatch, the creator
\* cancels or completes the match, and the callers rate one another.
NextRatings ==
    \/ \E u \in Callers, m \in MatchIds, t \in Teams, pos \in Positions :
           JoinMatch(u, m, t, pos)
    \/ \E u \in Callers, m \in MatchIds : LeaveMatch(u, m)
    \/ \E u \in Callers, m \in MatchIds : CancelMatch(u, m)
    \/ \E u \in Callers, m \in MatchIds : CompleteMatch(u, m)
    \/ \E u \in Callers, m \in MatchIds, ratedUserId \in Callers,
          args \in {NoContent, SuggestionOnly} :
           SubmitRating(u, m, ratedUserId, args)

SpecRatings == Init /\ [][NextRatings]_vars

\* Joins in flight.  The run starts after the creator has invited user 2
\* (sendPartyInvitation), and any caller may call joinMatch, creatorJoinMatch
\* or acceptPartyInvitation from either session.
InitJoinCalls ==
    /\ matches = <<[creatorId |-> 1, playersNeeded |-> MinPlayers, status |-> "open",
                    partyName |-> defaultPartyName(<<"x">>)]>>
    /\ participants = SeedRoster
    /\ partyInvitations = <<[matchId |-> 1, inviteeId |-> 2, status |-> "pending"]>>
    /\ lastCall = [op |-> "sendPartyInvitation", userId |-> 1]
    /\ txn = [u \in Callers |-> NoCall]
    /\ playerRatings = <<>>
    /\ scheduled = [v \in Users |-> 0]
    /\ calls = [s \in Sessions |-> IdleCall]
    /\ notifications = <<PartyNotification("party_invitation_received", 1)>>
    /\ userProfiles = {}
    /\ friendRequests = <<>>
    /\ blockedUsers = {}
    /\ outcome = NoOutcome
    /\ leaderboard = NoQuery

NextJoinCalls ==
    \/ \E s \in Sessions, u \in Callers, m \in MatchIds, t \in Teams, pos \in Positions :
           JoinMatchCall(s, u, m, t, pos)
    \/ \E s \in Sessions, u \in Callers, m \in MatchIds, t \in Teams, pos \in Positions :
           CreatorJoinMatchCall(s, u, m, t, pos)
    \/ \E s \in Sessions, u \in Callers, i \in InvitationIds, t \in Teams, pos \in Positions :
           AcceptPartyInvitationCall(s, u, i, t, pos)
    \/ \E s \in Sessions : CallRetry(s)
    \/ \E s \in Sessions : CallCommit(s)

SpecJoinCalls == InitJoinCalls /\ [][NextJoinCalls]_vars

\* Ratings in flight.  The run starts after users 1 and 2 have joined team A
\* (joinMatch) and the creator has completed the match (completeMatch), and
\* any caller may call submitRating from either session.
InitRatingCalls ==
    /\ matches = <<[creatorId |-> 1, playersNeeded |-> MinPlayers, status |-> "completed",
                    partyName |-> defaultPartyName(<<"x">>)]>>
    /\ participants = SeedRoster \cup
           {[matchId |-> 1, userId |-> 1, team |-> "A", position |-> "goalkeeper"],
            [matchId |-> 1, userId |-> 2, team |-> "A", position |-> "midfielder"]}
    /\ partyInvitations = <<>>
    /\ lastCall = [op |-> "completeMatch", userId |-> 1]
    /\ txn = [u \in Callers |-> NoCall]
    /\ playerRatings = <<>>
    /\ scheduled = [v \in Users |-> 0]
    /\ calls = [s \in Sessions |-> IdleCall]
    /\ notifications = <<>>
    /\ userProfiles = {}
    /\ friendRequests = <<>>
    /\ blockedUsers = {}
    /\ outcome = NoOutcome
    /\ leaderboard = NoQuery

NextRatingCalls ==
    \/ \E s \in Sessions, u \in Callers, m \in MatchIds, ratedUserId \in Users :
           SubmitRatingCall(s, u, m, ratedUserId, SuggestionOnly)
    \/ \E s \in Sessions : CallRetry(s)
    \/ \E s \in Sessions : CallCommit(s)

SpecRatingCalls == InitRatingCalls /\ [][NextRatingCalls]_vars

\* Match creation from the empty database.  The arguments of createMatch are
\* drawn from the values around the limits of playersNeeded, from instants
\* before, at and after the time of the call, and from party names that are left
\* out, empty, blank, or spell the default name of the location in lower case,
\* with and without blanks around it.
PlayersNeededInputs ==
    {MinPlayers - 1, MinPlayers, MinPlayers + 1, MaxPlayers - 1, MaxPlayers, MaxPlayers + 1}
Instants == {0, 1, 2}
CallInstants == {1}
LocationInputs == {<<"x">>}
LowerCaseName == <<"f", "o", "o", "t", "b", "a", "l", "l", " ", "a", "t", " ", "x">>
PartyNameInputs ==
    {Absent, Given(<<>>), Given(<<" ">>), Given(LowerCaseName),
     Given(<<" ">> \o LowerCaseName \o <<" ", " ">>)}

InitCreate ==
    /\ matches = <<>>
    /\ participants = {}
    /\ partyInvitations = <<>>
    /\ lastCall = [op |-> "none", userId |-> 0]
    /\ txn = [u \in Callers |-> NoCall]
    /\ playerRatings = <<>>
    /\ scheduled = [v \in Users |-> 0]
    /\ calls = [s \in Sessions |-> IdleCall]
    /\ notifications = <<>>
    /\ userProfiles = {}
    /\ friendRequests = <<>>
    /\ blockedUsers = {}
    /\ outcome = NoOutcome
    /\ leaderboard = NoQuery

NextCreate ==
    \/ \E u \in Callers, location \in LocationInputs, dateTime \in Instants,
          now \in CallInstants, playersNeeded \in PlayersNeededInputs,
          partyName \in PartyNameInputs :
           CreateMatch(u, location, dateTime, now, playersNeeded, partyName)
    \/ \E u \in Callers, m \in MatchIds : CancelMatch(u, m)
    \/ \E u \in Callers, m \in MatchIds : CompleteMatch(u, m)

SpecCreate == InitCreate /\ [][NextCreate]_vars

\* Profiles and their aggregation.  The run starts after the callers have
\* joined the match (joinMatch) and the creator has completed it
\* (completeMatch).  The callers rate user 1, the scheduler runs the jobs the
\* ratings schedule, and user 1 creates a profile (updateBio) or sets its
\* speed stat (updateUserProfile).
RatedUsers == {1}
ProfileOwners == {1}
ProfileRoster ==
    {[matchId |-> 1, userId |-> u,
      team |-> IF u % 2 = 1 THEN "A" ELSE "B",
      position |-> IF u <= 2 THEN "goalkeeper" ELSE "defender"] : u \in Callers}
RatingInputs == {NoContent, EmptySuggestion, SuggestionOnly, SpeedOnly, AllA, HalfB}
StatInputs == {Num(MinStat - 1), Num(MinStat), Num(MaxStat), Num(MaxStat + 1), NaN}
StatEdits == {[ProfileArgs EXCEPT !.speed = x] : x \in StatInputs}
ProfileInputs ==
    StatEdits \cup {[ProfileArgs EXCEPT !.age = Num(MinAge - 1)],
                    [ProfileArgs EXCEPT !.skillLevel = "beginner"],
                    [ProfileArgs EXCEPT !.displayName = Given(<<" ", "A", "b">>)]}

InitProfiles ==
    /\ matches = <<[creatorId |-> 1, playersNeeded |-> MinPlayers, status |-> "completed",
                    partyName |-> defaultPartyName(<<"x">>)]>>
    /\ participants = ProfileRoster
    /\ partyInvitations = <<>>
    /\ lastCall = [op |-> "completeMatch", userId |-> 1]
    /\ txn = [u \in Callers |-> NoCall]
    /\ playerRatings = <<>>
    /\ scheduled = [v \in Users |-> 0]
    /\ calls = [s \in Sessions |-> IdleCall]
    /\ notifications = <<>>
    /\ userProfiles = {}
    /\ friendRequests = <<>>
    /\ blockedUsers = {}
    /\ outcome = NoOutcome
    /\ leaderboard = NoQuery

NextProfiles ==
    \/ \E u \in Callers, m \in MatchIds, ratedUserId \in RatedUsers, args \in RatingInputs :
           SubmitRating(u, m, ratedUserId, args)
    \/ \E ratedUserId \in Users : UpdateAggregatedProfileStats(ratedUserId)
    \/ \E u \in ProfileOwners, args \in StatEdits : UpdateUserProfile(u, args)
    \/ \E u \in ProfileOwners : UpdateBio(u, "bio")

SpecProfiles == InitProfiles /\ [][NextProfiles]_vars

\* Profile edits.  The run starts after users 2 and 3 have rated user 1
\* (submitRating) and before the scheduler has run the two jobs.  User 1 edits
\* their profile by every profile mutation, and the scheduler runs the jobs.
RatingRow(u, ratedUserId, args) ==
    [matchId |-> 1, raterUserId |-> u, ratedUserId |-> ratedUserId,
     suggestion |-> args.suggestion,
     speedGiven |-> args.speedGiven, defenseGiven |-> args.defenseGiven,
     offenseGiven |-> args.offenseGiven, shootingGiven |-> args.shootingGiven,
     dribblingGiven |-> args.dribblingGiven, passingGiven |-> args.passingGiven]

InitProfileEdits ==
    /\ matches = <<[creatorId |-> 1, playersNeeded |-> MinPlayers, status |-> "completed",
                    partyName |-> defaultPartyName(<<"x">>)]>>
    /\ participants = ProfileRoster
    /\ partyInvitations = <<>>
    /\ lastCall = [op |-> "submitRating", userId |-> 3]
    /\ txn = [u \in Callers |-> NoCall]
    /\ playerRatings = <<RatingRow(2, 1, AllA), RatingRow(3, 1, HalfB)>>
    /\ scheduled = [v \in Users |-> IF v = 1 THEN 2 ELSE 0]
    /\ calls = [s \in Sessions |-> IdleCall]
    /\ notifications = <<>>
    /\ userProfiles = {}
    /\ friendRequests = <<>>
    /\ blockedUsers = {}
    /\ outcome = NoOutcome
    /\ leaderboard = NoQuery

NextProfileEdits ==
    \/ \E ratedUserId \in Users : UpdateAggregatedProfileStats(ratedUserId)
    \/ \E u \in ProfileOwners, args \in ProfileInputs : UpdateUserProfile(u, args)
    \/ \E u \in ProfileOwners : SaveProfilePicture(u, "url")
    \/ \E u \in ProfileOwners : UpdateBio(u, "bio")
    \/ \E u \in ProfileOwners : UpdateDisplayName(u, <<"a", "b">>)

SpecProfileEdits == InitProfileEdits /\ [][NextProfileEdits]_vars

\* Display names.  The run starts with no profile; every caller sets a
\* display name by updateDisplayName or by updateUserProfile, the names
\* differing in letter case and in the blanks around them.
NameInputs == {<<"A", "b">>, <<"a", "b">>, <<" ", "a", "b", " ">>, <<"c", "d">>}

NextDisplayNames ==
    \/ \E u \in Callers, name \in NameInputs : UpdateDisplayName(u, name)
    \/ \E u \in Callers, name \in NameInputs :
           UpdateUserProfile(u, [ProfileArgs EXCEPT !.displayName = Given(name)])

SpecDisplayNames == InitCreate /\ [][NextDisplayNames]_vars

\* Rosters of every size.  The run starts after a caller created a match of
\* an even playersNeeded (createMatch) and passive users joined it (joinMatch)
\* within the limits of the handler: team A is one or two rows short of its
\* half, in every mix of positions the limits allow, and team B is complete
\* or one row short.  Two callers then join and leave.
EvenPlayers == {pn \in MinPlayers..MaxPlayers : pn % 2 = 0}
RosterUsers == {1, 2}

\* The mixes <<goalkeepers, defenders, midfielders, forwards>> of one team
\* with a given number of rows.
TeamMixes(pn, sizes) ==
    {c \in (0..1) \X (0..maxPerFieldPosition(pn)) \X (0..maxPerFieldPosition(pn))
            \X (0..maxPerFieldPosition(pn)) :
        c[1] + c[2] + c[3] + c[4] \in sizes}

\* A team filled position by position up to a given number of rows: the
\* goalkeeper, then defenders and midfielders up to the limit, then forwards.
FilledInOrder(pn, size) ==
    LET limit == maxPerFieldPosition(pn)
        defenders == IF size - 1 < limit THEN size - 1 ELSE limit
        midfielders == IF size - 1 - defenders < limit THEN size - 1 - defenders ELSE limit
    IN  <<1, defenders, midfielders, size - 1 - defenders - midfielders>>

\* The rows of one team for a mix, the users numbered from first + 1.
TeamRows(t, c, first) ==
    {[matchId |-> 1, userId |-> first + k, team |-> t,
      position |-> IF k <= c[1] THEN "goalkeeper"
                   ELSE IF k <= c[1] + c[2] THEN "defender"
                   ELSE IF k <= c[1] + c[2] + c[3] THEN "midfielder"
                   ELSE "forward"] : k \in 1..(c[1] + c[2] + c[3] + c[4])}

InitRoster ==
    /\ \E pn \in EvenPlayers :
        /\ matches = <<[creatorId |-> 1, playersNeeded |-> pn, status |-> "open",
                        partyName |-> defaultPartyName(<<"x">>)]>>
        /\ \E a \in TeamMixes(pn, {maxPerTeam(pn) - 2, maxPerTeam(pn) - 1}),
              size \in {maxPerTeam(pn) - 1, maxPerTeam(pn)} :
               participants = TeamRows("A", a, NumCallers)
                                  \cup TeamRows("B", FilledInOrder(pn, size), NumCallers + pn)
    /\ partyInvitations = <<>>
    /\ lastCall = [op |-> "joinMatch", userId |-> NumCallers + 1]
    /\ txn = [u \in Callers |-> NoCall]
    /\ playerRatings = <<>>
    /\ scheduled = [v \in Users |-> 0]
    /\ calls = [s \in Sessions |-> IdleCall]
    /\ notifications = <<>>
    /\ userProfiles = {}
    /\ friendRequests = <<>>
    /\ blockedUsers = {}
    /\ outcome = NoOutcome
    /\ leaderboard = NoQuery

NextRoster ==
    \/ \E u \in RosterUsers, m \in MatchIds, t \in Teams, pos \in Positions :
           JoinMatch(u, m, t, pos)
    \/ \E u \in RosterUsers, m \in MatchIds, t \in Teams, pos \in Positions :
           CreatorJoinMatch(u, m, t, pos)
    \/ \E u \in RosterUsers, m \in MatchIds : LeaveMatch(u, m)

SpecRoster == InitRoster /\ [][NextRoster]_vars

\* ============================================================== claims
Terminal == {"cancelled", "completed"}
participantCount(m) == Cardinality(allParticipants(m))
teamPositionCount(m, t, pos) == positionCount(teamParticipants(allParticipants(m), t), pos)
NonMembers(m) == {u \in Callers : participation(m, u) = {}}
JoinOps == {"joinMatch", "creatorJoinMatch", "acceptPartyInvitation"}

\* C1: in every reachable state every match has at most playersNeeded
\* participant rows, whatever mix of joinMatch, creatorJoinMatch,
\* acceptPartyInvitation, leaveMatch, cancelMatch and completeMatch ran.
C1_CountWithinPlayersNeeded ==
    \A m \in MatchIds : participantCount(m) <= matches[m].playersNeeded

\* C1 witness: the match is at capacity and an invitee who is not in it still
\* holds a pending invitation, whose acceptance is refused for capacity.
C1_Witness ==
    \E i \in InvitationIds :
        /\ partyInvitations[i].status = "pending"
        /\ participantCount(partyInvitations[i].matchId)
               = matches[partyInvitations[i].matchId].playersNeeded
        /\ acceptPartyInvitationResult(partyInvitations[i].inviteeId, i, "A", "forward")
               = "The party is already full."

\* C2 (as claimed): no team of any match holds more than playersNeeded/2
\* participants, whichever operation inserted the rows.
C2_TeamWithinHalf ==
    \A m \in MatchIds, t \in Teams :
        Cardinality(teamParticipants(allParticipants(m), t))
            <= maxPerTeam(matches[m].playersNeeded)

\* C3 (as claimed): every team of every match has at most one goalkeeper.
C3_OneGoalkeeperPerTeam ==
    \A m \in MatchIds, t \in Teams : teamPositionCount(m, t, "goalkeeper") <= 1

\* C4 (as claimed): every team holds at most ceil((playersNeeded/2 - 1)/3)
\* participants of each field position.
C4_FieldPositionCeiling ==
    \A m \in MatchIds, t \in Teams, pos \in FieldPositions :
        teamPositionCount(m, t, pos) <= maxPerFieldPosition(matches[m].playersNeeded)

\* C5: of two joinMatch calls in flight at once on the same match, at most
\* one succeeds when both were made while the match had exactly one free slot,
\* and at most one succeeds when both ask to be goalkeeper of the same team
\* and were made while that team had none; however their reads and writes
\* interleave, the match never exceeds playersNeeded participants and no team
\* gets a second goalkeeper.
C5_AtMostOneJoinWins ==
    /\ \A m \in MatchIds : participantCount(m) <= matches[m].playersNeeded
    /\ \A m \in MatchIds, t \in Teams : teamPositionCount(m, t, "goalkeeper") <= 1
    /\ \A u \in Callers : \A v \in Callers \ {u} :
          (/\ txn[u].pc = "done" /\ txn[v].pc = "done"
           /\ txn[u].matchId = txn[v].matchId
           /\ txn[u].result = Ok /\ txn[v].result = Ok)
              => /\ ~(txn[u].free = 1 /\ txn[v].free = 1)
                 /\ ~(/\ txn[u].position = "goalkeeper" /\ txn[v].position = "goalkeeper"
                      /\ txn[u].team = txn[v].team
                      /\ txn[u].keepers = 0 /\ txn[v].keepers = 0)

\* C5 witness: two users asked to be goalkeeper of the same team while it had
\* none and a free slot remains on it; one call succeeded, the other was
\* overtaken while in flight, ran again and was refused the position.
C5_Witness ==
    \E u \in Callers : \E v \in Callers \ {u} :
        /\ txn[u].pc = "done" /\ txn[v].pc = "done"
        /\ txn[u].position = "goalkeeper" /\ txn[v].position = "goalkeeper"
        /\ txn[u].team = txn[v].team
        /\ txn[u].keepers = 0 /\ txn[v].keepers = 0
        /\ txn[u].result = Ok
        /\ txn[v].retried
        /\ txn[v].result = "Team already has a goalkeeper."

\* C6: a leaveMatch by a participant of a full match deletes the row and sets
\* the status to open in the same step; a join that brings an open match back
\* to playersNeeded participants sets the status to full in the same step.
C6_LeaveReopensJoinRefills ==
    [][\A m \in MatchIds, u \in Callers :
          /\ (/\ lastCall' = [op |-> "leaveMatch", userId |-> u]
              /\ allParticipants(m)' # allParticipants(m)
              /\ matches[m].status = "full")
                 => /\ matches'[m].status = "open"
                    /\ participation(m, u)' = {}
                    /\ participantCount(m)' = participantCount(m) - 1
          /\ (/\ lastCall'.op \in JoinOps
              /\ allParticipants(m)' # allParticipants(m)
              /\ participantCount(m)' = matches[m].playersNeeded)
                 => matches'[m].status = "full"]_vars

\* C6 witness: a leaveMatch has just taken the match from playersNeeded
\* participants (status full) to one fewer, and the match is open again.
C6_Witness ==
    /\ lastCall.op = "leaveMatch"
    /\ matches[1].status = "open"
    /\ participantCount(1) = matches[1].playersNeeded - 1

\* C7 (as claimed): once a match is cancelled or completed, no step changes
\* the participant rows of that match.
C7_TerminalRosterFrozen ==
    [][\A m \in MatchIds :
          matches[m].status \in Terminal => allParticipants(m)' = allParticipants(m)]_vars

\* C8: on a cancelled or completed match, cancelMatch and completeMatch by the
\* creator fail with the "already <status>" error, and no step changes a
\* terminal status.
C8_TerminalCallsRejected ==
    /\ [](\A m \in MatchIds :
            matches[m].status \in Terminal =>
                /\ cancelMatchResult(matches[m].creatorId, m)
                       = "Match is already " \o matches[m].status \o "."
                /\ completeMatchResult(matches[m].creatorId, m)
                       = "Match is already " \o matches[m].status \o ".")
    /\ [][\A m \in MatchIds :
            matches[m].status \in Terminal
                => matches'[m].status = matches[m].status]_vars

\* C8 witness: the creator has completed the match, and a cancelMatch by the
\* creator is refused.
C8_Witness ==
    /\ lastCall.op = "completeMatch"
    /\ matches[1].status = "completed"
    /\ cancelMatchResult(matches[1].creatorId, 1) = "Match is already completed."

ClaimedTransitions ==
    {<<"open", "full">>, <<"full", "open">>, <<"open", "cancelled">>,
     <<"full", "cancelled">>, <<"full", "completed">>}

\* What a change of status between two states must look like, given the set
\* of permitted (from, to) pairs: open->full comes with one more participant
\* reaching playersNeeded, full->open with one participant fewer.
TransitionsWithin(allowed) ==
    \A m \in MatchIds :
        matches'[m].status # matches[m].status =>
            /\ <<matches[m].status, matches'[m].status>> \in allowed
            /\ (matches'[m].status = "full" =>
                    /\ participantCount(m)' = participantCount(m) + 1
                    /\ participantCount(m)' = matches[m].playersNeeded)
            /\ (matches'[m].status = "open" =>
                    participantCount(m)' = participantCount(m) - 1)

\* C9 (as claimed): every status change is open->full, full->open,
\* open->cancelled, full->cancelled or full->completed.
C9_ClaimedTransitionsOnly == [][TransitionsWithin(ClaimedTransitions)]_vars

\* C9 (amended): every status change is one of the five claimed transitions or
\* open->completed; nothing leaves cancelled or completed.
C9_TransitionsWithOpenCompleted ==
    [][TransitionsWithin(ClaimedTransitions \cup {<<"open", "completed">>})]_vars

\* C9 witness: completeMatch has just committed on a match that holds fewer
\* than playersNeeded participants, i.e. the match went from open to completed.
C9_Witness ==
    /\ lastCall.op = "completeMatch"
    /\ matches[1].status = "completed"
    /\ participantCount(1) < matches[1].playersNeeded

\* C10: cancelMatch and completeMatch by a user other than the creator fail
\* with the creator-only error in every state, and a committed cancelMatch or
\* completeMatch was called by the creator of the match it changed.
C10_CreatorOnly ==
    /\ [](\A m \in MatchIds, u \in Callers :
            u # matches[m].creatorId =>
                /\ cancelMatchResult(u, m) = "Only the creator can cancel the match."
                /\ completeMatchResult(u, m)
                       = "Only the creator can mark the match as completed.")
    /\ [][\A m \in MatchIds :
            (lastCall'.op \in {"cancelMatch", "completeMatch"} /\ matches'[m] # matches[m])
                => lastCall'.userId = matches[m].creatorId]_vars

\* C10 witness: the creator has cancelled a match in which another caller
\* participates, and that participant's own cancelMatch and completeMatch are
\* refused as creator-only.
C10_Witness ==
    /\ lastCall.op = "cancelMatch"
    /\ lastCall.userId = matches[1].creatorId
    /\ \E u \in Callers \ {matches[1].creatorId} :
           /\ participation(1, u) # {}
           /\ cancelMatchResult(u, 1) = "Only the creator can cancel the match."
           /\ completeMatchResult(u, 1)
                  = "Only the creator can mark the match as completed."

NotOpen == "Match is not open for joining."
CreatorOnlyJoin == "Only the match creator can use this function."

\* C11: on a match whose status is not open (full, cancelled or completed),
\* joinMatch fails with the not-open error for every caller, team and
\* position, creatorJoinMatch fails (not-open for the creator, creator-only
\* for anyone else), and a committed joinMatch or creatorJoinMatch changed only
\* a match that was open.
C11_NotOpenJoinRejected ==
    /\ [](\A m \in MatchIds, u \in Callers, t \in Teams, pos \in Positions :
            matches[m].status # "open" =>
                /\ joinMatchResult(u, m, t, pos) = NotOpen
                /\ creatorJoinMatchResult(u, m, t, pos)
                       = IF u = matches[m].creatorId THEN NotOpen ELSE CreatorOnlyJoin)
    /\ [][\A m \in MatchIds :
            (/\ lastCall'.op \in {"joinMatch", "creatorJoinMatch"}
             /\ (allParticipants(m)' # allParticipants(m) \/ matches'[m] # matches[m]))
                => matches[m].status = "open"]_vars

\* C11 witness: the match is full while its creator holds no row in it, so
\* the creator's joinMatch and creatorJoinMatch are both refused as not open.
C11_Witness ==
    /\ matches[1].status = "full"
    /\ participation(1, matches[1].creatorId) = {}
    /\ joinMatchResult(matches[1].creatorId, 1, "A", "forward") = NotOpen
    /\ creatorJoinMatchResult(matches[1].creatorId, 1, "A", "forward") = NotOpen

NewRows == participants' \ participants
RemovedRows == participants \ participants'

\* Rows are deleted only by leaveMatch (the caller's own row), and no step
\* replaces the row of a (match, user) pair by a different one.
RemovedOnlyByLeave ==
    /\ RemovedRows # {} =>
           /\ lastCall'.op = "leaveMatch"
           /\ \A r \in RemovedRows : r.userId = lastCall'.userId
    /\ \A p \in participants, q \in participants' :
           (p.matchId = q.matchId /\ p.userId = q.userId) => p = q

\* The row r is inserted while its team is below playersNeeded/2, has no
\* goalkeeper if r is one, and is below the field-position ceiling otherwise.
InsertedWithinLimits(r) ==
    /\ Cardinality(teamParticipants(allParticipants(r.matchId), r.team))
           < maxPerTeam(matches[r.matchId].playersNeeded)
    /\ r.position = "goalkeeper" =>
           teamPositionCount(r.matchId, r.team, "goalkeeper") = 0
    /\ r.position # "goalkeeper" =>
           teamPositionCount(r.matchId, r.team, r.position)
               < maxPerFieldPosition(matches[r.matchId].playersNeeded)

\* C13 (as claimed): a participant row is created only by joinMatch or
\* creatorJoinMatch, each applying the team, goalkeeper and field-position
\* checks; it is removed only by leaveMatch and never updated in place.
C13_CreatedByJoinOnly ==
    [][/\ NewRows # {} =>
              /\ lastCall'.op \in {"joinMatch", "creatorJoinMatch"}
              /\ \A r \in NewRows : r.userId = lastCall'.userId /\ InsertedWithinLimits(r)
       /\ RemovedOnlyByLeave]_vars

\* C13 (amended): a participant row is created only by joinMatch,
\* creatorJoinMatch or acceptPartyInvitation, always for the caller; joinMatch
\* and creatorJoinMatch apply the team, goalkeeper and field-position checks at
\* insertion; a row is removed only by leaveMatch and never updated in place.
C13_RowLifecycle ==
    [][/\ NewRows # {} =>
              /\ lastCall'.op \in JoinOps
              /\ \A r \in NewRows :
                     /\ r.userId = lastCall'.userId
                     /\ lastCall'.op \in {"joinMatch", "creatorJoinMatch"}
                            => InsertedWithinLimits(r)
       /\ RemovedOnlyByLeave]_vars

\* C13 witness: acceptPartyInvitation has just committed and its caller holds
\* a participant row of the match of the accepted invitation.
C13_Witness ==
    /\ lastCall.op = "acceptPartyInvitation"
    /\ \E i \in InvitationIds :
           /\ partyInvitations[i].status = "accepted"
           /\ partyInvitations[i].inviteeId = lastCall.userId
           /\ participation(partyInvitations[i].matchId, lastCall.userId) # {}

fieldPlayers(m, t) ==
    {p \in teamParticipants(allParticipants(m), t) : p.position # "goalkeeper"}

C15_CreatorJoinAgreesWithJoin ==
    /\ [](\A m \in MatchIds, u \in Callers, t \in Teams, pos \in Positions :
            /\ u = matches[m].creatorId =>
                   (joinMatchResult(u, m, t, pos) = Ok
                        <=> creatorJoinMatchResult(u, m, t, pos) = Ok)
            /\ u # matches[m].creatorId =>
                   creatorJoinMatchResult(u, m, t, pos) = CreatorOnlyJoin)
    /\ [][\A m \in MatchIds, u \in Callers, t \in Teams, pos \in Positions :
            /\ CreatorJoinMatch(u, m, t, pos) =>
                   /\ u = matches[m].creatorId
                   /\ joinMatchResult(u, m, t, pos) = Ok
                   /\ InsertParticipant(u, m, t, pos, matches[m], allParticipants(m))
            /\ (JoinMatch(u, m, t, pos) /\ u = matches[m].creatorId) =>
                   /\ creatorJoinMatchResult(u, m, t, pos) = Ok
                   /\ InsertParticipant(u, m, t, pos, matches[m], allParticipants(m))]_vars

\* C15 witness: creatorJoinMatch has just committed as goalkeeper of a team,
\* so that a repeated joinMatch or creatorJoinMatch of the creator both fail.
C15_Witness ==
    /\ lastCall = [op |-> "creatorJoinMatch", userId |-> matches[1].creatorId]
    /\ \E p \in participation(1, matches[1].creatorId) : p.position = "goalkeeper"
    /\ joinMatchResult(matches[1].creatorId, 1, "A", "forward") # Ok
    /\ creatorJoinMatchResult(matches[1].creatorId, 1, "A", "forward") # Ok

CreateInputs ==
    [location : LocationInputs, dateTime : Instants, now : CallInstants,
     playersNeeded : PlayersNeededInputs, partyName : PartyNameInputs]
createResult(in) ==
    createMatchResult(in.location, in.dateTime, in.now, in.playersNeeded, in.partyName)

\* C16: every stored match has playersNeeded even and within 6..22;
\* createMatch with an odd or out-of-range playersNeeded fails with the
\* corresponding validation error; a committed createMatch appends one match,
\* with status open, and no step changes the playersNeeded of a stored match.
C16_PlayersNeededValid ==
    /\ [](/\ \A m \in MatchIds :
                /\ matches[m].playersNeeded % 2 = 0
                /\ matches[m].playersNeeded \in MinPlayers..MaxPlayers
          /\ \A in \in CreateInputs :
                /\ in.playersNeeded \notin MinPlayers..MaxPlayers =>
                       createResult(in)
                           = "Players needed must be between 6 and 22 for team matches."
                /\ (in.playersNeeded \in MinPlayers..MaxPlayers
                        /\ in.playersNeeded % 2 # 0) =>
                       createResult(in)
                           = "Players needed must be even for team matches (equal teams).")
    /\ [][/\ \A m \in MatchIds :
                /\ m \in DOMAIN matches'
                /\ matches'[m].playersNeeded = matches[m].playersNeeded
          /\ lastCall'.op = "createMatch" =>
                /\ Len(matches') = Len(matches) + 1
                /\ matches'[Len(matches')].status = "open"
                /\ matches'[Len(matches')].creatorId = lastCall'.userId
          /\ lastCall'.op # "createMatch" => Len(matches') = Len(matches)]_vars

\* C16 witness: matches with the smallest and the largest playersNeeded are
\* stored, one of them has been cancelled since, and it keeps its playersNeeded.
C16_Witness ==
    /\ lastCall.op = "cancelMatch"
    /\ \E m \in MatchIds, n \in MatchIds :
           /\ matches[m].playersNeeded = MinPlayers
           /\ matches[n].playersNeeded = MaxPlayers
           /\ matches[m].status = "cancelled"

\* C17 (as claimed): no two stored matches have party names that are equal
\* when letter case is ignored.
C17_PartyNamesUniqueIgnoringCase ==
    \A m \in MatchIds, n \in MatchIds :
        m # n => toLowerCase(matches[m].partyName) # toLowerCase(matches[n].partyName)

NotCompleted == "Ratings can only be submitted for completed matches."
AlreadyRated == "You have already rated this player for this match."

\* The match m has just been completed, and u and v are two different
\* participants of it.
CompletedWith(m, u, v) ==
    /\ matches[m].status # "completed"
    /\ matches'[m].status = "completed"
    /\ u # v
    /\ participation(m, u) # {}
    /\ participation(m, v) # {}

\* C19: every rating row refers to a completed match; submitRating on a match
\* that is open, full or cancelled fails with the completed-matches-only error
\* and no row is inserted; the step by which the creator completes the match
\* makes the submission of any participant about any other participant succeed.
C19_RatingsOnlyForCompleted ==
    /\ [](/\ \A k \in DOMAIN playerRatings :
                matches[playerRatings[k].matchId].status = "completed"
          /\ \A m \in MatchIds, u \in Callers, v \in Callers :
                matches[m].status # "completed" =>
                    submitRatingResult(u, m, v, TRUE) = NotCompleted)
    /\ [][\A m \in MatchIds, u \in Callers, v \in Callers :
            /\ (matches[m].status # "completed" /\ matches'[m].status # "completed")
                   => existingRating(m, u, v)' = {}
            /\ CompletedWith(m, u, v) =>
                   /\ lastCall' = [op |-> "completeMatch", userId |-> matches[m].creatorId]
                   /\ submitRatingResult(u, m, v, TRUE) = NotCompleted
                   /\ submitRatingResult(u, m, v, TRUE)' = Ok]_vars

\* C19 witness: a participant has just rated another participant of a match
\* that the creator had completed.
C19_Witness ==
    /\ lastCall.op = "submitRating"
    /\ matches[1].status = "completed"
    /\ \E u \in Callers, v \in Callers :
           /\ existingRating(1, u, v) # {}
           /\ lastCall.userId = u

\* C20 (as claimed): every rating row has a rater different from the ratee
\* and is inserted while both hold a participant row of the match; submitRating
\* fails when the caller rates themselves or when either party has no row; and
\* two different users who were participants when the match was completed can
\* rate each other from then on (the call succeeds, or reports that the rating
\* already exists).
C20_RatersAndRateesParticipated ==
    /\ [](/\ \A k \in DOMAIN playerRatings :
                playerRatings[k].raterUserId # playerRatings[k].ratedUserId
          /\ \A m \in MatchIds, u \in Callers, v \in Callers :
                (u = v \/ participation(m, u) = {} \/ participation(m, v) = {})
                    => submitRatingResult(u, m, v, TRUE) # Ok)
    /\ [][\A m \in MatchIds, u \in Callers, v \in Callers :
            /\ existingRating(m, u, v)' # existingRating(m, u, v) =>
                   /\ participation(m, u) # {}
                   /\ participation(m, v) # {}
            /\ CompletedWith(m, u, v) => submitRatingResult(u, m, v, TRUE)' = Ok
            /\ (/\ matches[m].status = "completed"
                /\ submitRatingResult(u, m, v, TRUE) \in {Ok, AlreadyRated})
                   => submitRatingResult(u, m, v, TRUE)' \in {Ok, AlreadyRated}]_vars

\* Two calls that have ended, made by the same user from the two sessions.
EndedCallsOfOneUser(c, d) ==
    /\ c.pc = "done" /\ d.pc = "done"
    /\ c.userId = d.userId

\* C12: there is at most one participant row per (match, user) pair; for a
\* user who holds a row of a match, joinMatch, creatorJoinMatch and
\* acceptPartyInvitation into that match all fail, for every team and position;
\* and of two join attempts of one user on one match that were in flight from
\* two sessions, in whatever order their reads and commits interleave, at most
\* one succeeds.
C12_OneRowPerMatchAndUser ==
    /\ \A m \in MatchIds, u \in Users : Cardinality(participation(m, u)) <= 1
    /\ \A m \in MatchIds, u \in Callers, t \in Teams, pos \in Positions :
           participation(m, u) # {} =>
               /\ joinMatchResult(u, m, t, pos) # Ok
               /\ creatorJoinMatchResult(u, m, t, pos) # Ok
               /\ \A i \in InvitationIds :
                      partyInvitations[i].matchId = m
                          => acceptPartyInvitationResult(u, i, t, pos) # Ok
    /\ (EndedCallsOfOneUser(calls["s1"], calls["s2"])
            /\ callMatch(calls["s1"]) = callMatch(calls["s2"]))
           => ~(calls["s1"].result = Ok /\ calls["s2"].result = Ok)

\* C12 witness: user 2 called joinMatch from one session and
\* acceptPartyInvitation from the other while holding no row; one call
\* committed its row, the other was overtaken while in flight, ran again and
\* was refused because the user is part of the party already.
C12_Witness ==
    \E s \in Sessions, r \in Sessions :
        /\ EndedCallsOfOneUser(calls[s], calls[r])
        /\ calls[s].op = "joinMatch" /\ calls[s].result = Ok
        /\ calls[r].op = "acceptPartyInvitation"
        /\ calls[r].retried
        /\ calls[r].result = "You are already part of this party."
        /\ Cardinality(participation(1, calls[s].userId)) = 1

\* C18: there is at most one rating row per (match, rater, ratee) triple; a
\* submitRating by a rater who has already rated that ratee in that match
\* fails, with the already-rated error while both hold their rows; and of two
\* submissions of one rater for one ratee that were in flight from two
\* sessions, in whatever order their reads and commits interleave, one at most
\* succeeds and the other then ends with the already-rated error.
C18_OneRatingPerTriple ==
    /\ \A m \in MatchIds, u \in Callers, v \in Users :
           /\ Cardinality(existingRating(m, u, v)) <= 1
           /\ existingRating(m, u, v) # {} =>
                  /\ submitRatingResult(u, m, v, TRUE) # Ok
                  /\ (participation(m, u) # {} /\ participation(m, v) # {})
                         => submitRatingResult(u, m, v, TRUE) = AlreadyRated
    /\ (/\ EndedCallsOfOneUser(calls["s1"], calls["s2"])
        /\ calls["s1"].id = calls["s2"].id
        /\ calls["s1"].ratedUserId = calls["s2"].ratedUserId)
           => /\ ~(calls["s1"].result = Ok /\ calls["s2"].result = Ok)
              /\ calls["s1"].result = Ok => calls["s2"].result = AlreadyRated
              /\ calls["s2"].result = Ok => calls["s1"].result = AlreadyRated

\* C18 witness: a rater submitted a rating of the same participant from both
\* sessions before any rating existed; one call inserted the row, the other was
\* overtaken while in flight, ran again and ended with the already-rated error.
C18_Witness ==
    \E s \in Sessions, r \in Sessions :
        /\ EndedCallsOfOneUser(calls[s], calls[r])
        /\ calls[s].ratedUserId = calls[r].ratedUserId
        /\ calls[s].result = Ok
        /\ calls[r].retried
        /\ calls[r].result = AlreadyRated
        /\ Cardinality(existingRating(1, calls[s].userId, calls[s].ratedUserId)) = 1

\* The leaderboard.  The run starts with a completed match that all users
\* took part in, after the users have rated users 1, 2 and 3 with full sets
\* of grades, these three have or have not created a profile and every
\* aggregation job has run; the query is then asked with and without limit,
\* position and country.
LeaderRoster ==
    SeedRoster \cup
    {[matchId |-> 1, userId |-> u,
      team |-> IF u % 2 = 1 THEN "A" ELSE "B",
      position |-> IF u = 1 THEN "goalkeeper" ELSE "forward"] : u \in Callers}

\* The users whose profiles the runs vary.
LeaderUsers == {1, 2, 3}

\* What a caller starts with: the grade all their raters gave and how many
\* raters there were, and the position, country and display name of their
\* profile.  NoProfile is a caller without profile.
LeaderShape(grade, count, position, country, name) ==
    [grade |-> grade, count |-> count, position |-> position, country |-> country,
     name |-> name, profile |-> TRUE]
NoProfile ==
    [grade |-> "-", count |-> 0, position |-> Undefined, country |-> Undefined,
     name |-> Absent, profile |-> FALSE]
LeaderShapes ==
    {NoProfile,
     LeaderShape("-", 0, "goalkeeper", "FR", Absent),
     LeaderShape("B", MIN_RATINGS_FOR_LEADERBOARD - 1, "goalkeeper", "FR", Absent),
     LeaderShape("A", MIN_RATINGS_FOR_LEADERBOARD, "goalkeeper", "FR", Given(<<"B">>)),
     LeaderShape("A", MIN_RATINGS_FOR_LEADERBOARD + 1, "defender", "FR", Absent),
     LeaderShape("S", MIN_RATINGS_FOR_LEADERBOARD, "goalkeeper", Undefined, Absent),
     LeaderShape("A", MIN_RATINGS_FOR_LEADERBOARD, Undefined, "DE", Given(<<"a">>))}

\* The first count users other than u: the raters of u.
ratersOf(u, count) ==
    {r \in Users \ {u} : Cardinality({x \in Users \ {u} : x < r}) < count}

\* The rating rows of the start, in the order of their insertion: by rated
\* user, then by rater.
rowsInOrder(rows) ==
    LET rank(r) == Cardinality({x \in rows :
                       \/ x.ratedUserId < r.ratedUserId
                       \/ x.ratedUserId = r.ratedUserId /\ x.raterUserId <= r.raterUserId})
    IN [i \in 1..Cardinality(rows) |-> CHOOSE r \in rows : rank(r) = i]

LeaderRows(shape) ==
    {RatingRow(r, u, RatingArgs(Undefined, shape[u].grade, shape[u].grade, shape[u].grade,
                                shape[u].grade, shape[u].grade, shape[u].grade)) :
        u \in {c \in LeaderUsers : shape[c].count > 0}, r \in Users}
LeaderRatings(shape) ==
    {row \in LeaderRows(shape) : row.raterUserId \in ratersOf(row.ratedUserId, shape[row.ratedUserId].count)}

\* The profile of a caller: created by updateUserProfile with position,
\* country and display name, then patched by the aggregation when ratings
\* exist: every stat and the overall score are the value of the one grade all
\* raters gave, and ratingsCount is the number of raters.
LeaderProfile(u, s) ==
    LET edited == Patched(NewProfile(u),
                          [favoritePosition |-> s.position, country |-> s.country,
                           displayName |-> s.name])
        aggregated == [k \in AggregateKeys |->
                          IF k = "ratingsCount" THEN Num(s.count)
                          ELSE Num(gradeToValueMapping(s.grade))]
    IN IF s.count > 0 THEN Patched(edited, aggregated) ELSE edited

LimitInputs == {Unset, Num(0 - 1), Num(1), Num(2)}

InitLeaderboard ==
    \E shape \in [LeaderUsers -> LeaderShapes] :
        /\ matches = <<[creatorId |-> 1, playersNeeded |-> MaxPlayers, status |-> "completed",
                        partyName |-> defaultPartyName(<<"x">>)]>>
        /\ participants = LeaderRoster
        /\ partyInvitations = <<>>
        /\ lastCall = [op |-> "updateAggregatedProfileStats", userId |-> 1]
        /\ txn = [u \in Callers |-> NoCall]
        /\ playerRatings = rowsInOrder(LeaderRatings(shape))
        /\ scheduled = [v \in Users |-> 0]
        /\ calls = [s \in Sessions |-> IdleCall]
        /\ notifications = <<>>
        /\ userProfiles = {LeaderProfile(u, shape[u]) : u \in {c \in LeaderUsers : shape[c].profile}}
        /\ friendRequests = <<>>
        /\ blockedUsers = {}
        /\ outcome = NoOutcome
        /\ leaderboard = NoQuery

NextLeaderboard ==
    \E limit \in LimitInputs, position \in {Undefined, "goalkeeper"},
       country \in {Undefined, "FR"} :
        GetOverallWorldwideLeaderboard(limit, position, country)

SpecLeaderboard == InitLeaderboard /\ [][NextLeaderboard]_vars

\* Rating counts.  The run starts after the creator completed a match
\* (completeMatch).  Three participants rate user 1, the scheduler runs the
\* jobs the ratings schedule, user 1 creates or edits a profile (updateBio,
\* updateUserProfile), and the leaderboard is asked for.
CountRaters == {2, 3, 4}

InitCounts ==
    /\ matches = <<[creatorId |-> 1, playersNeeded |-> MaxPlayers, status |-> "completed",
                    partyName |-> defaultPartyName(<<"x">>)]>>
    /\ participants = LeaderRoster
    /\ partyInvitations = <<>>
    /\ lastCall = [op |-> "completeMatch", userId |-> 1]
    /\ txn = [u \in Callers |-> NoCall]
    /\ playerRatings = <<>>
    /\ scheduled = [v \in Users |-> 0]
    /\ calls = [s \in Sessions |-> IdleCall]
    /\ notifications = <<>>
    /\ userProfiles = {}
    /\ friendRequests = <<>>
    /\ blockedUsers = {}
    /\ outcome = NoOutcome
    /\ leaderboard = NoQuery

NextCounts ==
    \/ \E u \in CountRaters, m \in MatchIds, ratedUserId \in RatedUsers,
          args \in {AllA, HalfB} :
           SubmitRating(u, m, ratedUserId, args)
    \/ \E ratedUserId \in RatedUsers : UpdateAggregatedProfileStats(ratedUserId)
    \/ \E u \in ProfileOwners : UpdateBio(u, "bio")
    \/ \E u \in ProfileOwners :
           UpdateUserProfile(u, [ProfileArgs EXCEPT !.speed = Num(MaxStat)])
    \/ GetOverallWorldwideLeaderboard(Unset, Undefined, Undefined)

SpecCounts == InitCounts /\ [][NextCounts]_vars

\* Calls that end either way.  The run starts like the roster runs; users 1
\* and 2 call the friend and block mutations on each other, user 1 calls
\* joinMatch as a goalkeeper and invites user 2, users 2 and 3 answer the
\* invitation, and every dispatch of a notification returns or fails.
FriendUsers == {1, 2}
ReasonInputs == {Undefined, "spam"}

NextAttempts ==
    \/ \E m \in MatchIds, t \in Teams : JoinMatchAttempt(1, m, t, "goalkeeper")
    \/ \E m \in MatchIds, dispatch \in DispatchResults :
           SendPartyInvitationAttempt(1, m, 2, dispatch)
    \/ \E u \in {2, 3}, i \in InvitationIds, dispatch \in DispatchResults :
           AcceptPartyInvitationAttempt(u, i, "A", "defender", dispatch)
    \/ \E i \in InvitationIds, dispatch \in DispatchResults :
           DeclinePartyInvitationAttempt(2, i, dispatch)
    \/ \E u \in FriendUsers, requesteeId \in FriendUsers, dispatch \in DispatchResults :
           SendFriendRequestAttempt(u, requesteeId, dispatch)
    \/ \E u \in FriendUsers, r \in DOMAIN friendRequests, dispatch \in DispatchResults :
           AcceptFriendRequestAttempt(u, r, dispatch)
    \/ \E u \in FriendUsers, r \in DOMAIN friendRequests, dispatch \in DispatchResults :
           DeclineFriendRequestAttempt(u, r, dispatch)
    \/ \E u \in FriendUsers, friendUserId \in FriendUsers : RemoveFriendAttempt(u, friendUserId)
    \/ \E u \in FriendUsers, blockedId \in FriendUsers, reason \in ReasonInputs :
           BlockUserAttempt(u, blockedId, reason)
    \/ \E u \in FriendUsers, blockedId \in FriendUsers : UnblockUserAttempt(u, blockedId)

SpecAttempts == Init /\ [][NextAttempts]_vars

\* The friends of two users: the calls of friends.ts alone, each from its
\* start to its end.  blockUser is given no reason or one of two.
ReasonChanges == ReasonInputs \cup {"rude"}
NextFriends ==
    \/ \E u \in FriendUsers, requesteeId \in FriendUsers, dispatch \in DispatchResults :
           SendFriendRequestAttempt(u, requesteeId, dispatch)
    \/ \E u \in FriendUsers, r \in DOMAIN friendRequests, dispatch \in DispatchResults :
           AcceptFriendRequestAttempt(u, r, dispatch)
    \/ \E u \in FriendUsers, r \in DOMAIN friendRequests, dispatch \in DispatchResults :
           DeclineFriendRequestAttempt(u, r, dispatch)
    \/ \E u \in FriendUsers, friendUserId \in FriendUsers : RemoveFriendAttempt(u, friendUserId)
    \/ \E u \in FriendUsers, blockedId \in FriendUsers, reason \in ReasonChanges :
           BlockUserAttempt(u, blockedId, reason)
    \/ \E u \in FriendUsers, blockedId \in FriendUsers : UnblockUserAttempt(u, blockedId)

SpecFriends == Init /\ [][NextFriends]_vars

\* ------------------------------------------------- claims on the aggregates
\* The integer nearest to num / den, the upper one of two that are equally
\* near: what rounding the arithmetic mean of a stat has to give.
nearestInteger(num, den) ==
    CHOOSE n \in 0..MaxStat : 2 * den * n - 2 * num \in (1 - den)..den

\* The grades a user received for one attribute, as the rows that carry them.
gradedRows(v, stat) ==
    {k \in DOMAIN playerRatings :
        /\ playerRatings[k].ratedUserId = v
        /\ playerRatings[k][attributeGivenKey(stat)] # Undefined}

\* S counts 95, A 85, B 75, C 65 and D 55.
gradeValue(grade) ==
    CASE grade = "S" -> 95 [] grade = "A" -> 85 [] grade = "B" -> 75
      [] grade = "C" -> 65 [] grade = "D" -> 55

gradeSum(rows, stat) ==
    LET sum[i \in 0..Len(playerRatings)] ==
            IF i = 0 THEN 0
            ELSE sum[i - 1] + (IF i \in rows
                               THEN gradeValue(playerRatings[i][attributeGivenKey(stat)])
                               ELSE 0)
    IN sum[Len(playerRatings)]

\* The value one stat of the user ought to have: the rounded mean of the values
\* of all grades received for the attribute, null when there is none.
expectedStat(v, stat) ==
    IF gradedRows(v, stat) = {} THEN Null
    ELSE Num(nearestInteger(gradeSum(gradedRows(v, stat), stat),
                            Cardinality(gradedRows(v, stat))))

expectedSum(v, stats) ==
    LET sum[i \in 0..Len(coreStatKeys)] ==
            IF i = 0 THEN 0
            ELSE sum[i - 1] + (IF coreStatKeys[i] \in stats
                               THEN expectedStat(v, coreStatKeys[i])[2] ELSE 0)
    IN sum[Len(coreStatKeys)]

\* The overall score the user ought to have: the rounded mean of the stats
\* that have a grade, null when none has.
expectedOverallScore(v) ==
    LET set == {stat \in StatKeys : gradedRows(v, stat) # {}} IN
    IF set = {} THEN Null
    ELSE Num(nearestInteger(expectedSum(v, set), Cardinality(set)))

\* The aggregation job of the user is the call that ran last.
AggregationRan(v) == lastCall = [op |-> "updateAggregatedProfileStats", userId |-> v]

\* C21: after updateAggregatedProfileStats ran for a user who has a profile,
\* each of speed, defense, offense, shooting, dribbling and passing of the
\* profile is the rounded mean of the values of all grades the user received
\* for the attribute, and is unset (null to a reader of the profile) when no
\* grade was received for it.
C21_StatsAreRoundedMeans ==
    \A v \in Users : AggregationRan(v) =>
        \A p \in profileOf(v), stat \in StatKeys :
            getUserPublicProfile(p)[stat] = expectedStat(v, stat)

\* C22: after updateAggregatedProfileStats ran for a user who has a profile,
\* overallScore is the rounded mean of those of the six stats that have a
\* grade, and is unset when none has.
C22_OverallScoreIsMeanOfSetStats ==
    \A v \in Users : AggregationRan(v) =>
        \A p \in profileOf(v) :
            getUserPublicProfile(p).overallScore = expectedOverallScore(v)

\* C23: after updateAggregatedProfileStats ran for a user who has a profile,
\* ratingsCount is the number of rating rows that name the user as the rated
\* one, rows with a suggestion only or with some attributes only included.
C23_RatingsCountIsRowCount ==
    \A v \in Users : AggregationRan(v) =>
        \A p \in profileOf(v) :
            getUserPublicProfile(p).ratingsCount =
                Num(Cardinality({k \in DOMAIN playerRatings :
                                    playerRatings[k].ratedUserId = v}))

\* C24: updateAggregatedProfileStats is idempotent.  Run again for the same
\* user with no rating inserted in between, it leaves the profile as the first
\* run left it; the rating rows, which alone determine the updatedStats it
\* returns, are the same for both runs.
C24_AggregationIdempotent ==
    /\ [](\A v \in Users :
             aggregatedProfiles(aggregatedProfiles(userProfiles, v), v)
                 = aggregatedProfiles(userProfiles, v))
    /\ [][\A v \in Users :
             (AggregationRan(v) /\ scheduled'[v] < scheduled[v]) =>
                 /\ userProfiles' = userProfiles
                 /\ playerRatings' = playerRatings]_vars

\* C24 witness: two ratings with all six grades were submitted for a user who
\* has a profile; the first of the two scheduled jobs has run and has written
\* the stats and a ratingsCount of 2, and the second job, the same computation
\* over the same rows, is still to run.
C24_Witness ==
    \E v \in RatedUsers, p \in userProfiles :
        /\ AggregationRan(v)
        /\ scheduled[v] > 0
        /\ p.userId = v
        /\ p.ratingsCount = Num(2)
        /\ p.overallScore = Num(85)
        /\ aggregatedProfiles(userProfiles, v) = userProfiles

\* The values the aggregate fields of a user's profile ought to show, computed
\* from the rating rows that exist.
expectedAggregates(v) ==
    [k \in AggregateKeys |->
        IF k = "overallScore" THEN expectedOverallScore(v)
        ELSE IF k = "ratingsCount"
            THEN Num(Cardinality({r \in DOMAIN playerRatings :
                                     playerRatings[r].ratedUserId = v}))
        ELSE expectedStat(v, k)]

\* C25: once every aggregation job that submitRating scheduled has run, the
\* six stats, overallScore and ratingsCount of every existing profile equal
\* the values computed from the rating rows that exist at that point.
C25_ProfilesAgreeOnceJobsRan ==
    (\A v \in Users : scheduled[v] = 0) =>
        \A p \in userProfiles : getUserPublicProfile(p) = expectedAggregates(p.userId)

\* The aggregate fields as a profile document of the table holds them; a user
\* without profile holds none.
storedAggregates(profiles, u) ==
    {[k \in AggregateKeys |-> p[k]] : p \in {q \in profiles : q.userId = u}}

NoAggregates == [k \in AggregateKeys |-> Unset]

\* C26: the six stats, overallScore and ratingsCount of a profile are written
\* by updateAggregatedProfileStats only: a step of any other mutation leaves
\* them as they were, and a profile it creates has none of them set.
C26_AggregatesWrittenOnlyByAggregation ==
    [][\A u \in Users :
          (storedAggregates(userProfiles, u)' # storedAggregates(userProfiles, u)
              /\ storedAggregates(userProfiles, u)' # {NoAggregates})
            => lastCall'.op = "updateAggregatedProfileStats"]_vars

\* C30: every stat and the overallScore stored in a profile is, when set, a
\* number from 0 to 100.
C30_StatsWithinRange ==
    \A p \in userProfiles, k \in StatKeys \cup {"overallScore"} :
        p[k] = Unset \/ \E n \in MinStat..MaxStat : p[k] = Num(n)

\* C29: getOverallWorldwideLeaderboard returns only profiles whose
\* overallScore is set and whose ratingsCount is at least 3, of the requested
\* position and country when these are given, ordered by overallScore
\* descending and among equal scores by ratingsCount descending, and it
\* returns at most limit entries (50 when no limit is given, none when the
\* limit is below 1).
C29_LeaderboardFilteredOrderedLimited ==
    LET returned == leaderboard.returned
        limit == IF leaderboard.limit = Unset THEN DefaultLimit ELSE leaderboard.limit[2]
    IN /\ \A i \in DOMAIN returned :
              /\ returned[i] \in userProfiles
              /\ \E n \in MinStat..MaxStat : returned[i].overallScore = Num(n)
              /\ \E n \in MIN_RATINGS_FOR_LEADERBOARD..Cardinality(Users) :
                     returned[i].ratingsCount = Num(n)
              /\ leaderboard.position # Undefined =>
                     returned[i].favoritePosition = leaderboard.position
              /\ leaderboard.country # Undefined => returned[i].country = leaderboard.country
       /\ \A i, j \in DOMAIN returned : i < j =>
              \/ returned[i].overallScore[2] > returned[j].overallScore[2]
              \/ /\ returned[i].overallScore[2] = returned[j].overallScore[2]
                 /\ returned[i].ratingsCount[2] >= returned[j].ratingsCount[2]
       /\ Len(returned) <= (IF limit < 0 THEN 0 ELSE limit)

PrimaryWritesKept ==
    CASE outcome.op = "sendPartyInvitation" ->
             /\ outcome.id \in InvitationIds
             /\ partyInvitations[outcome.id].status = "pending"
      [] outcome.op = "acceptPartyInvitation" ->
             /\ partyInvitations[outcome.id].status = "accepted"
             /\ participation(partyInvitations[outcome.id].matchId, outcome.userId) # {}
      [] outcome.op = "declinePartyInvitation" ->
             partyInvitations[outcome.id].status = "declined"
      [] outcome.op = "sendFriendRequest" ->
             /\ outcome.id \in DOMAIN friendRequests
             /\ friendRequests[outcome.id].requesterId = outcome.userId
             /\ friendRequests[outcome.id].status = "pending"
      [] outcome.op = "acceptFriendRequest" ->
             friendRequests[outcome.id].status = "accepted"
      [] outcome.op = "declineFriendRequest" ->
             friendRequests[outcome.id].status = "declined"
      [] OTHER -> TRUE

\* C28: when the dispatch of the notification of acceptPartyInvitation,
\* sendPartyInvitation, declinePartyInvitation, sendFriendRequest or
\* acceptFriendRequest fails, the operation's own writes are kept and the
\* caller is told of no error.
C28_DispatchFailureIsSwallowed ==
    outcome.dispatchFailed => (outcome.result = Ok /\ PrimaryWritesKept)

\* A match that accepts participants is full exactly at capacity.
FullExactlyAtCapacity(m) ==
    /\ matches[m].status = "open" => participantCount(m) < matches[m].playersNeeded
    /\ matches[m].status = "full" => participantCount(m) = matches[m].playersNeeded

\* C31: in every reachable state an open match has fewer than playersNeeded
\* participant rows and a full match has exactly playersNeeded; so no joinMatch
\* call fails on the total-capacity check, and a step that brings the count
\* of a match to playersNeeded leaves it with status full.
C31_FullExactlyAtCapacity ==
    /\ [](\A m \in MatchIds : FullExactlyAtCapacity(m))
    /\ [](\A u \in Callers, m \in MatchIds, t \in Teams, pos \in Positions :
              joinMatchResult(u, m, t, pos) # "Match is already full.")
    /\ [][\A m \in MatchIds :
              (/\ participantCount(m) < matches[m].playersNeeded
               /\ participantCount(m)' = matches[m].playersNeeded)
              => matches'[m].status = "full"]_vars

\* C31 witness: a joinMatch call has just brought a match to capacity, the
\* match is full and one caller is still outside it.
C31_Witness ==
    \E m \in MatchIds :
        /\ lastCall.op = "joinMatch"
        /\ participation(m, lastCall.userId) # {}
        /\ matches[m].status = "full"
        /\ participantCount(m) = matches[m].playersNeeded
        /\ NonMembers(m) # {}

\* The positions of team t that joinMatch accepts from user u.
acceptedPositions(u, m, t) == {pos \in Positions : joinMatchResult(u, m, t, pos) = Ok}

\* C32: in every state reached through createMatch, joinMatch,
\* creatorJoinMatch and leaveMatch, for every even playersNeeded from 6 to 22,
\* an open match has a team below playersNeeded / 2, and for every such team
\* joinMatch accepts at least one of the four positions from any user who is
\* not in the match: the roster is never stuck below capacity.
C32_OpenTeamAcceptsSomePosition ==
    \A m \in MatchIds :
        matches[m].status = "open" =>
            /\ \E t \in Teams :
                   Cardinality(teamParticipants(allParticipants(m), t))
                       < maxPerTeam(matches[m].playersNeeded)
            /\ \A t \in Teams, u \in NonMembers(m) :
                   Cardinality(teamParticipants(allParticipants(m), t))
                       < maxPerTeam(matches[m].playersNeeded)
                   => acceptedPositions(u, m, t) # {}

\* C32 witness: in a match of 22 a caller has just joined team A, which is
\* still below its half, and joinMatch now accepts exactly one position there.
C32_Witness ==
    \E m \in MatchIds :
        /\ matches[m].playersNeeded = MaxPlayers
        /\ matches[m].status = "open"
        /\ lastCall.op = "joinMatch"
        /\ \E p \in participation(m, lastCall.userId) : p.team = "A"
        /\ lastCall.userId \in RosterUsers
        /\ Cardinality(teamParticipants(allParticipants(m), "A"))
               < maxPerTeam(matches[m].playersNeeded)
        /\ \E u \in NonMembers(m) : Cardinality(acceptedPositions(u, m, "A")) = 1

\* The pending or accepted requests between two users, in either direction.
liveRequests(u, v) ==
    {r \in DOMAIN friendRequests :
        /\ friendRequests[r].status \in {"pending", "accepted"}
        /\ {friendRequests[r].requesterId, friendRequests[r].requesteeId} = {u, v}}

blockBetween(u, v) == blocksOf(u, v) # {} \/ blocksOf(v, u) # {}

\* C33: in every reachable state at most one friendRequests row between two
\* users is pending or accepted, and while there is one sendFriendRequest
\* fails in either direction.
C33_OneLiveRequestPerPair ==
    \A u \in FriendUsers : \A v \in FriendUsers \ {u} :
        /\ Cardinality(liveRequests(u, v)) <= 1
        /\ liveRequests(u, v) # {} => sendFriendRequestChecks(u, v) # Ok

\* C34: in every reachable state, while a block row exists between two users
\* in either direction no friendRequests row between them is pending or
\* accepted, and sendFriendRequest between them fails.
C34_NoLiveRequestAcrossBlock ==
    \A u \in FriendUsers : \A v \in FriendUsers \ {u} :
        blockBetween(u, v) =>
            /\ liveRequests(u, v) = {}
            /\ sendFriendRequestChecks(u, v) # Ok

\* C36: when blockUser has ended with "User already blocked." and was given a
\* reason, the stored block of the caller on that user holds that reason.
C36_RepeatedBlockUpdatesReason ==
    (/\ outcome.op = "blockUser"
     /\ outcome.result = "User already blocked."
     /\ outcome.reason \notin {Undefined, ""})
    => \A b \in blocksOf(outcome.userId, outcome.id) : b.reason = outcome.reason

\* C35: in every reachable state no two users' profiles hold display names
\* that are equal when letter case is ignored, and a call of updateUserProfile
\* or updateDisplayName with a name another user holds fails.
C35_DisplayNamesUniqueIgnoringCase ==
    /\ \A p \in userProfiles, q \in userProfiles :
           (p.userId # q.userId /\ p.displayName.given /\ q.displayName.given)
           => toLowerCase(p.displayName.value) # toLowerCase(q.displayName.value)
    /\ \A u \in Callers, name \in NameInputs :
           displayNameTaken(u, trim(name))
           => /\ updateDisplayNameResult(u, name) # Ok
              /\ updateUserProfileResult(
                     u, [ProfileArgs EXCEPT !.displayName = Given(name)]) # Ok

\* The playerRatings rows whose rated user is u.
ratingsReceived(u) ==
    Cardinality({i \in DOMAIN playerRatings : playerRatings[i].ratedUserId = u})

\* C37: in every reachable state a profile's ratingsCount, when set, is a
\* number not above the number of playerRatings rows of that rated user; no
\* step lowers or unsets it; and every user the leaderboard returned has at
\* least MIN_RATINGS_FOR_LEADERBOARD such rows.
C37_RatingsCountBoundedAndMonotone ==
    /\ [](\A p \in userProfiles :
              p.ratingsCount # Unset
              => /\ p.ratingsCount[1] = "number"
                 /\ p.ratingsCount[2] <= ratingsReceived(p.userId))
    /\ [](\A i \in DOMAIN leaderboard.returned :
              ratingsReceived(leaderboard.returned[i].userId) >= MIN_RATINGS_FOR_LEADERBOARD)
    /\ [][\A p \in userProfiles :
              p.ratingsCount # Unset
              => \E q \in userProfiles' :
                     /\ q.userId = p.userId
                     /\ q.ratingsCount # Unset
                     /\ q.ratingsCount[2] >= p.ratingsCount[2]]_vars

\* C37 witness: the leaderboard has returned user 1, whose profile counts
\* three ratings, after the aggregation ran on three rows.
C37_Witness ==
    /\ Len(leaderboard.returned) = 1
    /\ leaderboard.returned[1].userId = 1
    /\ \E p \in userProfiles :
           /\ p.userId = 1
           /\ p.ratingsCount = Num(MIN_RATINGS_FOR_LEADERBOARD)
           /\ ratingsReceived(1) = MIN_RATINGS_FOR_LEADERBOARD

\* What refuses an acceptance according to the claim: the match is full,
\* cancelled or completed, or the invitee is already in the party.
AcceptanceRefused(i) ==
    LET m == partyInvitations[i].matchId IN
    \/ matches[m].status \in {"full", "cancelled", "completed"}
    \/ participation(m, partyInvitations[i].inviteeId) # {}
    \/ matches[m].creatorId = partyInvitations[i].inviteeId

\* C38: a step changes the status of an invitation only from pending to
\* accepted or declined and only as acceptPartyInvitation or
\* declinePartyInvitation called by its invitee; the status becomes accepted
\* exactly in the step that inserts the invitee's participant row; and while
\* the match is full, cancelled or completed or the invitee is already in the
\* party, acceptPartyInvitation is refused for a pending invitation, which
\* therefore stays pending with no participant added.
C38_InvitationLifecycle ==
    /\ [][\A i \in DOMAIN partyInvitations :
              LET before == partyInvitations[i]
                  after == partyInvitations'[i]
                  joined == participation(before.matchId, before.inviteeId) = {}
                            /\ participation(before.matchId, before.inviteeId)' # {}
              IN /\ i \in DOMAIN partyInvitations'
                 /\ after.matchId = before.matchId /\ after.inviteeId = before.inviteeId
                 /\ after.status # before.status
                    => /\ before.status = "pending"
                       /\ after.status \in {"accepted", "declined"}
                       /\ lastCall'.userId = before.inviteeId
                       /\ lastCall'.op = IF after.status = "accepted"
                                         THEN "acceptPartyInvitation"
                                         ELSE "declinePartyInvitation"
                 /\ after.status # before.status /\ after.status = "accepted" => joined
                 /\ lastCall'.op = "acceptPartyInvitation" /\ lastCall'.userId = before.inviteeId
                    /\ joined
                    => after.status = "accepted" \/ before.status # "pending"]_vars
    /\ [](\A i \in DOMAIN partyInvitations, t \in Teams, pos \in Positions :
              partyInvitations[i].status = "pending" /\ AcceptanceRefused(i)
              => acceptPartyInvitationResult(partyInvitations[i].inviteeId, i, t, pos) # Ok)

\* C38 witness: the invitee has just accepted; the invitation is accepted
\* and the invitee's participant row is in the match.
C38_Witness ==
    \E i \in DOMAIN partyInvitations :
        /\ lastCall = [op |-> "acceptPartyInvitation", userId |-> partyInvitations[i].inviteeId]
        /\ partyInvitations[i].status = "accepted"
        /\ participation(partyInvitations[i].matchId, partyInvitations[i].inviteeId) # {}

====
